---- MODULE Spec2Model ----
(***************************************************************************)
(* Modbus protocol engine (modbus.cpp): CRC engine, framing, client        *)
(* operations, reply validation and the slave's query handling, over the   *)
(* RTU and the TCP (MBAP) transport.                                        *)
(*                                                                         *)
(* Frames and buffers are sequences of bytes (0..255); the C index i is    *)
(* the TLA+ index i + 1.                                                   *)
(***************************************************************************)
EXTENDS Integers, Sequences, FiniteSets, TLC

VARIABLES
    mb_param,     \* the client session: type_com, slave, debug, error_handling
    sv_param,     \* the slave's session (same fields)
    t_id,         \* static transaction counter of build_query_basis_tcp
    mb_mapping,   \* the slave's coil/register map
    c2s,          \* bytes written by the client, not yet read by the slave
    s2c,          \* bytes readable on the client's descriptor
    pc,           \* where the client is: "idle", "wait" (query sent), "done"
    op,           \* the client operation in progress and its arguments
    query,        \* the query buffer of the operation (after modbus_send)
    response,     \* the bytes receive_msg stored in the response buffer
    ret,          \* the value the operation returns
    data_dest,    \* the values the operation stored for the caller
    seen,         \* history: the bytes that were readable when the reply was awaited
    peer,         \* history: what the peer did to the reply ("none" = nothing)
    requests,     \* history: the request frames the process sent, session by session
    rcv,          \* the locals of the receive_msg / rcv_msg call in progress
    configured    \* history: the configuration the constructor and the mutators set

clientVars == << mb_param, t_id, pc, op, query, response, ret, data_dest, seen,
                requests, rcv, configured >>
serverVars == << sv_param, mb_mapping >>
wireVars   == << c2s, s2c, peer >>
vars == << mb_param, sv_param, t_id, mb_mapping, c2s, s2c, pc, op, query,
           response, ret, data_dest, seen, peer, requests, rcv, configured >>

----------------------------------------------------------------------------
(* Bounds of the model *)

MaxCrcLen == 3        \* longest byte sequence S of SpecCrc
MaxAddr   == 1        \* client start addresses are 0..MaxAddr
MaxQty    == 2        \* client quantities are 0..MaxQty, 10 and the first rejected one

----------------------------------------------------------------------------
(* Constants of modbus.h *)

RTU == "RTU"
TCP == "TCP"
FLUSH_OR_CONNECT_ON_ERROR == "FLUSH_OR_CONNECT_ON_ERROR"
NOP_ON_ERROR == "NOP_ON_ERROR"

HEADER_LENGTH_RTU == 1
HEADER_LENGTH_TCP == 7
CHECKSUM_LENGTH_RTU == 2
CHECKSUM_LENGTH_TCP == 0
PRESET_QUERY_LENGTH_RTU == 6
PRESET_QUERY_LENGTH_TCP == 12
PRESET_RESPONSE_LENGTH_RTU == 2
PRESET_RESPONSE_LENGTH_TCP == 8
EXCEPTION_RESPONSE_LENGTH_RTU == 5
MSG_LENGTH_UNDEFINED == -1
MAX_STATUS == 2000
MAX_REGISTERS == 125
MODBUS_BROADCAST_ADDRESS == 0
UINT16_MAX == 65535
NB_TAB_ERROR_MSG == 12

FC_READ_COIL_STATUS == 1
FC_READ_INPUT_STATUS == 2
FC_READ_HOLDING_REGISTERS == 3
FC_READ_INPUT_REGISTERS == 4
FC_FORCE_SINGLE_COIL == 5
FC_PRESET_SINGLE_REGISTER == 6
FC_READ_EXCEPTION_STATUS == 7
FC_FORCE_MULTIPLE_COILS == 15
FC_PRESET_MULTIPLE_REGISTERS == 16
FC_REPORT_SLAVE_ID == 17

ILLEGAL_DATA_ADDRESS == -2
ILLEGAL_DATA_VALUE == -3
INVALID_DATA == -16
INVALID_CRC == -17
INVALID_EXCEPTION_CODE == -18
SELECT_TIMEOUT == -19
SELECT_FAILURE == -20
SOCKET_FAILURE == -21
CONNECTION_CLOSED == -22
MB_EXCEPTION == -23

UINT16 == 3           \* the data-type tag the 16-bit operations pass

TAB_HEADER_LENGTH(type_com) ==
    IF type_com = RTU THEN HEADER_LENGTH_RTU ELSE HEADER_LENGTH_TCP

TAB_CHECKSUM_LENGTH(type_com) ==
    IF type_com = RTU THEN CHECKSUM_LENGTH_RTU ELSE CHECKSUM_LENGTH_TCP

----------------------------------------------------------------------------
(* Bytes and buffers *)

Byte == 0..255

\* buf[i] of the C code, for an index inside the buffer
At(buf, i) == buf[i + 1]

\* buf[i] where the C code may read a cell it never wrote: junk stands for
\* what the cell happens to hold
Rd(buf, i, junk) == IF i < Len(buf) THEN buf[i + 1] ELSE junk

\* the buffer with buf[i] = v
Put(buf, i, v) == [buf EXCEPT ![i + 1] = v]

Take(buf, n) == SubSeq(buf, 1, n)
Drop(buf, n) == SubSeq(buf, n + 1, Len(buf))

RECURSIVE Xor(_, _)
\* a ^ b on non-negative integers
Xor(a, b) ==
    IF a = 0 THEN b
    ELSE IF b = 0 THEN a
    ELSE (((a % 2) + (b % 2)) % 2) + 2 * Xor(a \div 2, b \div 2)

----------------------------------------------------------------------------
(* CRC engine *)

table_crc_hi ==
  <<
    0, 193, 129, 64, 1, 192, 128, 65, 1, 192, 128, 65, 0, 193, 129, 64,
    1, 192, 128, 65, 0, 193, 129, 64, 0, 193, 129, 64, 1, 192, 128, 65,
    1, 192, 128, 65, 0, 193, 129, 64, 0, 193, 129, 64, 1, 192, 128, 65,
    0, 193, 129, 64, 1, 192, 128, 65, 1, 192, 128, 65, 0, 193, 129, 64,
    1, 192, 128, 65, 0, 193, 129, 64, 0, 193, 129, 64, 1, 192, 128, 65,
    0, 193, 129, 64, 1, 192, 128, 65, 1, 192, 128, 65, 0, 193, 129, 64,
    0, 193, 129, 64, 1, 192, 128, 65, 1, 192, 128, 65, 0, 193, 129, 64,
    1, 192, 128, 65, 0, 193, 129, 64, 0, 193, 129, 64, 1, 192, 128, 65,
    1, 192, 128, 65, 0, 193, 129, 64, 0, 193, 129, 64, 1, 192, 128, 65,
    0, 193, 129, 64, 1, 192, 128, 65, 1, 192, 128, 65, 0, 193, 129, 64,
    0, 193, 129, 64, 1, 192, 128, 65, 1, 192, 128, 65, 0, 193, 129, 64,
    1, 192, 128, 65, 0, 193, 129, 64, 0, 193, 129, 64, 1, 192, 128, 65,
    0, 193, 129, 64, 1, 192, 128, 65, 1, 192, 128, 65, 0, 193, 129, 64,
    1, 192, 128, 65, 0, 193, 129, 64, 0, 193, 129, 64, 1, 192, 128, 65,
    1, 192, 128, 65, 0, 193, 129, 64, 0, 193, 129, 64, 1, 192, 128, 65,
    0, 193, 129, 64, 1, 192, 128, 65, 1, 192, 128, 65, 0, 193, 129, 64 >>

table_crc_lo ==
  <<
    0, 192, 193, 1, 195, 3, 2, 194, 198, 6, 7, 199, 5, 197, 196, 4,
    204, 12, 13, 205, 15, 207, 206, 14, 10, 202, 203, 11, 201, 9, 8, 200,
    216, 24, 25, 217, 27, 219, 218, 26, 30, 222, 223, 31, 221, 29, 28, 220,
    20, 212, 213, 21, 215, 23, 22, 214, 210, 18, 19, 211, 17, 209, 208, 16,
    240, 48, 49, 241, 51, 243, 242, 50, 54, 246, 247, 55, 245, 53, 52, 244,
    60, 252, 253, 61, 255, 63, 62, 254, 250, 58, 59, 251, 57, 249, 248, 56,
    40, 232, 233, 41, 235, 43, 42, 234, 238, 46, 47, 239, 45, 237, 236, 44,
    228, 36, 37, 229, 39, 231, 230, 38, 34, 226, 227, 35, 225, 33, 32, 224,
    160, 96, 97, 161, 99, 163, 162, 98, 102, 166, 167, 103, 165, 101, 100, 164,
    108, 172, 173, 109, 175, 111, 110, 174, 170, 106, 107, 171, 105, 169, 168, 104,
    120, 184, 185, 121, 187, 123, 122, 186, 190, 126, 127, 191, 125, 189, 188, 124,
    180, 116, 117, 181, 119, 183, 182, 118, 114, 178, 179, 115, 177, 113, 112, 176,
    80, 144, 145, 81, 147, 83, 82, 146, 150, 86, 87, 151, 85, 149, 148, 84,
    156, 92, 93, 157, 95, 159, 158, 94, 90, 154, 155, 91, 153, 89, 88, 152,
    136, 72, 73, 137, 75, 139, 138, 74, 78, 142, 143, 79, 141, 77, 76, 140,
    68, 132, 133, 69, 135, 71, 70, 134, 130, 66, 67, 131, 65, 129, 128, 64 >>

RECURSIVE crc16_loop(_, _, _, _, _)
\* the while loop of crc16: p is the position of *buffer, n what is left of
\* buffer_length; the n turns of the loop are the first n \div 2 turns
\* followed by the other ones, the CRC after the first ones (never negative)
\* being computed before the other ones start, which keeps the evaluation
\* shallow for the longest frames
crc16_loop(buffer, p, n, crc_hi, crc_lo) ==
    IF n = 0 THEN crc_hi * 256 + crc_lo
    ELSE IF n = 1
      THEN LET i == Xor(crc_hi, At(buffer, p))
           IN  Xor(crc_lo, table_crc_hi[i + 1]) * 256 + table_crc_lo[i + 1]
    ELSE LET half == crc16_loop(buffer, p, n \div 2, crc_hi, crc_lo)
         IN  IF half < 0 THEN half
             ELSE crc16_loop(buffer, p + (n \div 2), n - (n \div 2),
                             half \div 256, half % 256)

\* crc16 (buffer, buffer_length)
crc16(buffer, buffer_length) == crc16_loop(buffer, 0, buffer_length, 255, 255)

\* check_crc16 reading the received CRC low byte first
check_crc16_low_first(msg, msg_length) ==
    LET crc_calc == crc16(msg, msg_length - 2)
        crc_received == At(msg, msg_length - 1) * 256 + At(msg, msg_length - 2)
    IN  IF crc_calc = crc_received THEN msg_length ELSE INVALID_CRC

\* check_crc16 (msg, msg_length): msg_length, or INVALID_CRC (the call of
\* error_treat is the caller's TreatEffect)
check_crc16(msg, msg_length) ==
    LET crc_calc == crc16(msg, msg_length - 2)
        crc_received == At(msg, msg_length - 2) * 256 + At(msg, msg_length - 1)
    IN  IF crc_calc = crc_received THEN msg_length ELSE INVALID_CRC

\* modbus_send: the bytes put on the wire for query[0 .. query_length-1]
\* (RTU appends the CRC high byte first; TCP stores the MBAP length, which
\* only reaches the wire when the frame holds offsets 4 and 5)
SentFrame(type_com, frame) ==
    IF type_com = RTU
    THEN LET s_crc == crc16(frame, Len(frame))
         IN  frame \o << s_crc \div 256, s_crc % 256 >>
    ELSE LET mbap_length == Len(frame) - 6
         IN  [k \in 1..Len(frame) |->
                 IF k = 5 THEN (mbap_length \div 256) % 256
                 ELSE IF k = 6 THEN mbap_length % 256
                 ELSE frame[k]]

----------------------------------------------------------------------------
(* Framing *)

\* nb / 8 without the byte of the remaining bits
ByteCount_floor(nb) == nb \div 8

\* ceil(nb / 8) as the code computes it: (nb / 8) + ((nb % 8) ? 1 : 0)
ByteCount(nb) == (nb \div 8) + (IF (nb % 8) # 0 THEN 1 ELSE 0)

\* (query[offset + 3] << 8) | query[offset + 4]
QueryNb(type_com, buf) ==
    LET offset == TAB_HEADER_LENGTH(type_com)
    IN  At(buf, offset + 3) * 256 + At(buf, offset + 4)

\* compute_response_length (query, data_type)
compute_response_length(type_com, buf, data_type) ==
    LET offset == TAB_HEADER_LENGTH(type_com)
        fn == At(buf, offset)
        nb == QueryNb(type_com, buf)
        length ==
            IF fn \in {FC_READ_COIL_STATUS, FC_READ_INPUT_STATUS}
              THEN 2 + ByteCount(nb)
            ELSE IF fn \in {FC_READ_HOLDING_REGISTERS, FC_READ_INPUT_REGISTERS}
              THEN IF data_type \in {0, 1} THEN 2 + nb
                   ELSE IF data_type \in {4, 5} THEN 2 + 4 * nb
                   ELSE 2 + 2 * nb
            ELSE IF fn = FC_READ_EXCEPTION_STATUS THEN 3
            ELSE 5
    IN  IF fn = FC_REPORT_SLAVE_ID THEN MSG_LENGTH_UNDEFINED
        ELSE length + offset + TAB_CHECKSUM_LENGTH(type_com)

\* a counter that passes from UINT16_MAX to 1
NextTid_skip_zero(t) == IF t < UINT16_MAX THEN t + 1 ELSE 1

\* the transaction id build_query_basis_tcp writes, from the counter before
NextTid(t) == IF t < UINT16_MAX THEN t + 1 ELSE 0

\* build_query_basis_rtu
build_query_basis_rtu(slave, function, start_addr, nb) ==
    << slave % 256, function % 256,
       (start_addr \div 256) % 256, start_addr % 256,
       (nb \div 256) % 256, nb % 256 >>

\* build_query_basis_tcp, with tid the counter after its increment; offsets
\* 4 and 5 are set by modbus_send
build_query_basis_tcp(tid, slave, function, start_addr, nb) ==
    << tid \div 256, tid % 256, 0, 0, 0, 0 >>
        \o build_query_basis_rtu(slave, function, start_addr, nb)

\* build_query_basis: the query header of this session
build_query_basis(param, tid, function, start_addr, nb) ==
    IF param.type_com = RTU
    THEN build_query_basis_rtu(param.slave, function, start_addr, nb)
    ELSE build_query_basis_tcp(tid, param.slave, function, start_addr, nb)

----------------------------------------------------------------------------
(* Error policy *)

\* an error_treat that leaves the transport alone whatever the policy
error_treat_nop(param, code) == "nop"

\* error_treat (code): what it does to the transport under the session's
\* error_handling: "flush", "reconnect" or "nop"
error_treat(param, code) ==
    IF param.error_handling = FLUSH_OR_CONNECT_ON_ERROR
    THEN IF code \in {INVALID_DATA, INVALID_CRC, INVALID_EXCEPTION_CODE}
           THEN "flush"
         ELSE IF code \in {SELECT_FAILURE, SOCKET_FAILURE, CONNECTION_CLOSED}
           THEN "reconnect"
         ELSE "nop"
    ELSE "nop"

\* the input queue rx of a session after the calls of error_treat with the
\* codes of treats, made once `used` bytes were read from it (modbus_flush
\* and the close/connect pair both leave nothing to read)
TreatEffect(param, treats, rx, used) ==
    IF \E k \in 1..Len(treats) : error_treat(param, treats[k]) # "nop"
    THEN << >>
    ELSE Drop(rx, used)

\* the session after the same calls: modbus_close then modbus_connect put a
\* new descriptor in fd, numbered here by the connections opened so far
TreatParam(param, treats) ==
    [param EXCEPT !.fd = @ + Cardinality({k \in 1..Len(treats) :
                                 error_treat(param, treats[k]) = "reconnect"})]

----------------------------------------------------------------------------
(* Receive state machine *)

\* what WAIT_DATA returns when the wait expires with msg_length bytes received
WaitTimeout(type_com, msg_length) ==
    IF msg_length = TAB_HEADER_LENGTH(type_com) + 2 + TAB_CHECKSUM_LENGTH(type_com)
    THEN MB_EXCEPTION
    ELSE SELECT_TIMEOUT

\* the final step of receive_msg on the msg_length bytes of msg
ReceiveEnd(type_com, msg, treats) ==
    IF type_com = RTU
    THEN LET r == check_crc16(msg, Len(msg))
         IN  [ret |-> r, msg |-> msg, used |-> Len(msg),
              treats |-> IF r < 0 THEN Append(treats, INVALID_CRC) ELSE treats]
    ELSE [ret |-> Len(msg), msg |-> msg, used |-> Len(msg), treats |-> treats]

\* receive_msg (msg_length_computed, msg, select_time) for a defined length
\* (state COMPLETE), rx being the bytes that arrive before a wait expires
receive_msg(type_com, msg_length_computed, rx) ==
    IF Len(rx) >= msg_length_computed
    THEN ReceiveEnd(type_com, Take(rx, msg_length_computed), << >>)
    ELSE [ret |-> WaitTimeout(type_com, Len(rx)), msg |-> rx,
          used |-> Len(rx), treats |-> << >>]

\* compute_query_length_header (function)
compute_query_length_header(function) ==
    IF function <= FC_FORCE_SINGLE_COIL \/ function = FC_PRESET_SINGLE_REGISTER
      THEN 4
    ELSE IF function \in {FC_FORCE_MULTIPLE_COILS, FC_PRESET_MULTIPLE_REGISTERS}
      THEN 5
    ELSE IF function = FC_REPORT_SLAVE_ID THEN 1
    ELSE 0

\* compute_query_length_data without the checksum length
compute_query_length_data_no_checksum(type_com, msg) ==
    LET offset == TAB_HEADER_LENGTH(type_com)
        function == At(msg, offset)
    IN  IF function \in {FC_FORCE_MULTIPLE_COILS, FC_PRESET_MULTIPLE_REGISTERS}
          THEN At(msg, offset + 5)
        ELSE IF function = FC_REPORT_SLAVE_ID THEN At(msg, offset + 1)
        ELSE 0

\* compute_query_length_data (msg)
compute_query_length_data(type_com, msg) ==
    LET offset == TAB_HEADER_LENGTH(type_com)
        function == At(msg, offset)
        length ==
            IF function \in {FC_FORCE_MULTIPLE_COILS, FC_PRESET_MULTIPLE_REGISTERS}
              THEN At(msg, offset + 5)
            ELSE IF function = FC_REPORT_SLAVE_ID THEN At(msg, offset + 1)
            ELSE 0
    IN  length + TAB_CHECKSUM_LENGTH(type_com)

\* the TCP limit for both transports
TAB_MAX_ADU_LENGTH_tcp_only(type_com) == 260

\* TAB_MAX_ADU_LENGTH[type_com]
TAB_MAX_ADU_LENGTH(type_com) == IF type_com = RTU THEN 256 ELSE 260

\* receive_msg (MSG_LENGTH_UNDEFINED, msg, select_time): the states FUNCTION,
\* BYTE and COMPLETE, rx being the bytes that arrive before a wait expires
receive_msg_undefined(type_com, rx) ==
    LET offset == TAB_HEADER_LENGTH(type_com)
        len1 == offset + 1
        timeout == [ret |-> WaitTimeout(type_com, Len(rx)), msg |-> rx,
                    used |-> Len(rx), treats |-> << >>]
    IN  IF Len(rx) < len1 THEN timeout
        ELSE
          LET ext == compute_query_length_header(At(rx, offset))
              len2 == len1 + ext
          IN  IF ext = 0
                THEN \* length_to_read = 0 in state FUNCTION ends the loop
                     ReceiveEnd(type_com, Take(rx, len1), << >>)
              ELSE IF Len(rx) < len2 THEN timeout
              ELSE
                LET more == compute_query_length_data(type_com, Take(rx, len2))
                    len3 == len2 + more
                IN  IF len3 > TAB_MAX_ADU_LENGTH(type_com)
                      THEN [ret |-> INVALID_DATA, msg |-> Take(rx, len2),
                            used |-> len2, treats |-> << INVALID_DATA >>]
                    ELSE IF Len(rx) < len3 THEN timeout
                    ELSE ReceiveEnd(type_com, Take(rx, len3), << >>)

----------------------------------------------------------------------------
(* Server operations *)

Pow2(n) == IF n = 0 THEN 1 ELSE IF n = 1 THEN 2 ELSE IF n = 2 THEN 4
           ELSE IF n = 3 THEN 8 ELSE IF n = 4 THEN 16 ELSE IF n = 5 THEN 32
           ELSE IF n = 6 THEN 64 ELSE 128

\* (temp & bit) != 0 for bit = 1 << n
BitOf(temp, n) == (temp \div Pow2(n)) % 2

RECURSIVE response_io_status_loop(_, _, _, _, _, _)
\* the for loop of response_io_status and the store of the last partial byte
response_io_status_loop(i, end, tab_io_status, shift, byte, out) ==
    IF i >= end
    THEN IF shift # 0 THEN Append(out, byte % 256) ELSE out
    ELSE LET b == byte + At(tab_io_status, i) * Pow2(shift)
         IN  IF shift = 7
             THEN response_io_status_loop(i + 1, end, tab_io_status, 0, 0,
                                          Append(out, b % 256))
             ELSE response_io_status_loop(i + 1, end, tab_io_status,
                                          shift + 1, b, out)

\* response_io_status: the bytes it stores from response[offset] on
response_io_status(address, nb, tab_io_status) ==
    response_io_status_loop(address, address + nb, tab_io_status, 0, 0, << >>)

\* build_response_basis (offsets 4 and 5 of TCP are set by modbus_send)
build_response_basis(type_com, sft) ==
    IF type_com = RTU
    THEN << sft.slave, sft.function >>
    ELSE << sft.t_id \div 256, sft.t_id % 256, 0, 0, 0, 0,
            sft.slave, sft.function >>

\* response_exception without the 0x80 put on the function byte
response_exception_plain_function(type_com, sft, exception_code) ==
    build_response_basis(type_com, sft) \o << (0 - exception_code) % 256 >>

\* response_exception storing the negative code as it is
response_exception_raw_code(type_com, sft, exception_code) ==
    build_response_basis(type_com,
                         [sft EXCEPT !.function = (sft.function + 128) % 256])
        \o << exception_code % 256 >>

\* response_exception
response_exception(type_com, sft, exception_code) ==
    build_response_basis(type_com,
                         [sft EXCEPT !.function = (sft.function + 128) % 256])
        \o << (0 - exception_code) % 256 >>

\* the words of the registers with the low byte first
RegisterBytes_low_first(tab, address, nb) ==
    [k \in 1..(2 * nb) |->
        LET v == At(tab, address + ((k - 1) \div 2))
        IN  IF (k % 2) = 1 THEN v % 256 ELSE (v \div 256) % 256]

\* the big-endian words of the registers tab[address .. address + nb - 1]
RegisterBytes(tab, address, nb) ==
    [k \in 1..(2 * nb) |->
        LET v == At(tab, address + ((k - 1) \div 2))
        IN  IF (k % 2) = 1 THEN (v \div 256) % 256 ELSE v % 256]

\* set_bits_from_bytes taking the bits of a byte from the high end
set_bits_from_bytes_msb_first(dest, address, nb_bits, tab_byte) ==
    [k \in 1..Len(dest) |->
        LET i == k - 1
        IN  IF i >= address /\ i < address + nb_bits
            THEN BitOf(At(tab_byte, (i - address) \div 8),
                       7 - ((i - address) % 8))
            ELSE dest[k]]

\* set_bits_from_bytes (dest, address, nb_bits, tab_byte)
set_bits_from_bytes(dest, address, nb_bits, tab_byte) ==
    [k \in 1..Len(dest) |->
        LET i == k - 1
        IN  IF i >= address /\ i < address + nb_bits
            THEN BitOf(At(tab_byte, (i - address) \div 8), (i - address) % 8)
            ELSE dest[k]]

\* modbus_slave_manage (query, query_length, mb_mapping): the mapping after
\* it, whether modbus_send is reached, and response[0 .. resp_length-1];
\* junk is what a cell of query[] beyond the bytes received holds
modbus_slave_manage(param, qry, query_length, map, junk) ==
    LET type_com == param.type_com
        offset == TAB_HEADER_LENGTH(type_com)
        slave == At(qry, offset - 1)
        function == At(qry, offset)
        address == At(qry, offset + 1) * 256 + At(qry, offset + 2)
        sft == [slave |-> slave, function |-> function,
                t_id |-> IF type_com = TCP
                         THEN At(qry, 0) * 256 + At(qry, 1) ELSE 0]
        qlen == IF type_com = TCP THEN query_length
                ELSE query_length - CHECKSUM_LENGTH_RTU
        nb == At(qry, offset + 3) * 256 + At(qry, offset + 4)
        data == nb
        basis == build_response_basis(type_com, sft)
        illegal_address == response_exception(type_com, sft, ILLEGAL_DATA_ADDRESS)
        reply(resp, m) == [sent |-> TRUE, resp |-> resp, map |-> m]
    IN  IF slave # param.slave /\ slave # MODBUS_BROADCAST_ADDRESS
          THEN [sent |-> FALSE, resp |-> << >>, map |-> map]
        ELSE IF function = FC_READ_COIL_STATUS
          THEN IF address + nb > Len(map.tab_coil_status)
               THEN reply(illegal_address, map)
               ELSE reply(basis \o << ByteCount(nb) % 256 >>
                          \o response_io_status(address, nb, map.tab_coil_status),
                          map)
        ELSE IF function = FC_READ_INPUT_STATUS
          THEN IF address + nb > Len(map.tab_input_status)
               THEN reply(illegal_address, map)
               ELSE reply(basis \o << ByteCount(nb) % 256 >>
                          \o response_io_status(address, nb, map.tab_input_status),
                          map)
        ELSE IF function = FC_READ_HOLDING_REGISTERS
          THEN IF address + nb > Len(map.tab_holding_registers)
               THEN reply(illegal_address, map)
               ELSE reply(basis \o << (nb * 2) % 256 >>
                          \o RegisterBytes(map.tab_holding_registers, address, nb),
                          map)
        ELSE IF function = FC_READ_INPUT_REGISTERS
          THEN IF address + nb > Len(map.tab_input_registers)
               THEN reply(illegal_address, map)
               ELSE reply(basis \o << (nb * 2) % 256 >>
                          \o RegisterBytes(map.tab_input_registers, address, nb),
                          map)
        ELSE IF function = FC_FORCE_SINGLE_COIL
          THEN IF address >= Len(map.tab_coil_status)
               THEN reply(illegal_address, map)
               ELSE IF data = 65280 \/ data = 0
               THEN reply(Take(qry, qlen),
                          [map EXCEPT !.tab_coil_status[address + 1] =
                                          IF data # 0 THEN 1 ELSE 0])
               ELSE reply(response_exception(type_com, sft, ILLEGAL_DATA_VALUE), map)
        ELSE IF function = FC_PRESET_SINGLE_REGISTER
          THEN IF address >= Len(map.tab_holding_registers)
               THEN reply(illegal_address, map)
               ELSE reply(Take(qry, qlen),
                          [map EXCEPT !.tab_holding_registers[address + 1] = data])
        ELSE IF function = FC_FORCE_MULTIPLE_COILS
          THEN IF address + nb > Len(map.tab_coil_status)
               THEN reply(illegal_address, map)
               ELSE reply(basis \o SubSeq(qry, offset + 2, offset + 5),
                          [map EXCEPT !.tab_coil_status =
                              set_bits_from_bytes(@, address, nb,
                                  [k \in 1..ByteCount(nb) |->
                                      Rd(qry, offset + 5 + k, junk)])])
        ELSE IF function = FC_PRESET_MULTIPLE_REGISTERS
          THEN IF address + nb > Len(map.tab_holding_registers)
               THEN reply(illegal_address, map)
               ELSE reply(basis \o SubSeq(qry, offset + 2, offset + 5),
                          [map EXCEPT !.tab_holding_registers =
                              [k \in 1..Len(@) |->
                                  LET i == k - 1
                                      j == 6 + 2 * (i - address)
                                  IN  IF i >= address /\ i < address + nb
                                      THEN Rd(qry, offset + j, junk) * 256
                                             + Rd(qry, offset + j + 1, junk)
                                      ELSE @[k]]])
        ELSE \* FC_READ_EXCEPTION_STATUS, FC_REPORT_SLAVE_ID and the codes
             \* the switch has no case for: resp_length stays 0
             reply(<< >>, map)

----------------------------------------------------------------------------
(* Client operations: reply validation and decoding *)

\* response_nb_value of the register-read cases of modbus_receive; junk is
\* the value of the variable where no case assigns it
ResponseNbRegisters(data_type, byte_count, junk) ==
    IF data_type \in {0, 1} THEN byte_count
    ELSE IF data_type \in {2, 3} THEN byte_count \div 2
    ELSE IF data_type \in {4, 5} THEN byte_count \div 4
    ELSE junk

\* query_nb_value with the byte count of a bit read rounded down
QueryNbValue_floor(fn, query_nb, r) ==
    IF fn \in {FC_READ_COIL_STATUS, FC_READ_INPUT_STATUS}
      THEN query_nb \div 8
    ELSE IF fn \in {FC_READ_HOLDING_REGISTERS, FC_READ_INPUT_REGISTERS,
                    FC_FORCE_MULTIPLE_COILS, FC_PRESET_MULTIPLE_REGISTERS}
      THEN query_nb
    ELSE IF fn = FC_REPORT_SLAVE_ID THEN r
    ELSE 1

\* query_nb_value of modbus_receive, by the function code fn of the response
QueryNbValue(fn, query_nb, r) ==
    IF fn \in {FC_READ_COIL_STATUS, FC_READ_INPUT_STATUS}
      THEN ByteCount(query_nb)
    ELSE IF fn \in {FC_READ_HOLDING_REGISTERS, FC_READ_INPUT_REGISTERS,
                    FC_FORCE_MULTIPLE_COILS, FC_PRESET_MULTIPLE_REGISTERS}
      THEN query_nb
    ELSE IF fn = FC_REPORT_SLAVE_ID THEN r
    ELSE 1

\* response_nb_value of modbus_receive, by the function code fn of the response
ResponseNbValue(type_com, fn, resp, data_type, r, junk) ==
    LET offset == TAB_HEADER_LENGTH(type_com)
    IN  IF fn \in {FC_READ_COIL_STATUS, FC_READ_INPUT_STATUS}
          THEN Rd(resp, offset + 1, junk)
        ELSE IF fn \in {FC_READ_HOLDING_REGISTERS, FC_READ_INPUT_REGISTERS}
          THEN ResponseNbRegisters(data_type, Rd(resp, offset + 1, junk), junk)
        ELSE IF fn \in {FC_FORCE_MULTIPLE_COILS, FC_PRESET_MULTIPLE_REGISTERS}
          THEN Rd(resp, offset + 3, junk) * 256 + Rd(resp, offset + 4, junk)
        ELSE IF fn = FC_REPORT_SLAVE_ID THEN r
        ELSE 1

\* the "GOOD RESPONSE" branch of modbus_receive: its return value, for the
\* r bytes of resp that receive_msg delivered
CheckResponse(type_com, qry, resp, data_type, r, junk) ==
    LET fn == Rd(resp, TAB_HEADER_LENGTH(type_com), junk)
        query_nb_value == QueryNbValue(fn, QueryNb(type_com, qry), r)
        response_nb_value == ResponseNbValue(type_com, fn, resp, data_type, r, junk)
    IN  IF query_nb_value = response_nb_value
        THEN [ret |-> response_nb_value, treats |-> << >>]
        ELSE [ret |-> INVALID_DATA, treats |-> << INVALID_DATA >>]

\* the "EXCEPTION CODE RECEIVED" branch of modbus_receive
CheckException(type_com, qry, resp) ==
    LET offset == TAB_HEADER_LENGTH(type_com)
        crc == IF type_com = RTU
               THEN check_crc16(resp, EXCEPTION_RESPONSE_LENGTH_RTU)
               ELSE MB_EXCEPTION
        exception_code == At(resp, offset + 1)
    IN  IF type_com = RTU /\ crc < 0
          THEN [ret |-> crc, treats |-> << INVALID_CRC >>]
        ELSE IF 128 + At(qry, offset) = At(resp, offset)
          THEN IF exception_code < NB_TAB_ERROR_MSG
               THEN [ret |-> 0 - exception_code, treats |-> << 0 - exception_code >>]
               ELSE [ret |-> INVALID_EXCEPTION_CODE,
                     treats |-> << INVALID_EXCEPTION_CODE >>]
        ELSE [ret |-> crc, treats |-> << >>]

\* modbus_receive (query, response, data_type, select_time), rx being the
\* bytes that arrive before a wait expires: the return value, the bytes
\* stored in response, the bytes read and the codes given to error_treat
modbus_receive(type_com, qry, rx, data_type, junk) ==
    LET computed == compute_response_length(type_com, qry, data_type)
        rm == IF computed = MSG_LENGTH_UNDEFINED
              THEN receive_msg_undefined(type_com, rx)
              ELSE receive_msg(type_com, computed, rx)
        out(res) == [ret |-> res.ret, response |-> rm.msg, used |-> rm.used,
                     treats |-> rm.treats \o res.treats]
    IN  IF rm.ret >= 0
          THEN out(CheckResponse(type_com, qry, rm.msg, data_type, rm.ret, junk))
        ELSE IF rm.ret = MB_EXCEPTION
          THEN out(CheckException(type_com, qry, rm.msg))
        ELSE IF rm.ret = SELECT_TIMEOUT
          THEN out([ret |-> rm.ret, treats |-> << SELECT_TIMEOUT >>])
        ELSE out([ret |-> rm.ret, treats |-> << >>])

\* read_io_status taking every bit from the first data byte
ReadIoStatusDecode_first_byte(type_com, resp, nb, r, junk) ==
    LET offset == TAB_HEADER_LENGTH(type_com)
        n == IF 8 * r < nb THEN 8 * r ELSE nb
    IN  [pos \in 1..(IF n > 0 THEN n ELSE 0) |->
            BitOf(Rd(resp, offset + 2, junk), (pos - 1) % 8)]

\* the decoding loop of read_io_status: the elements of data_dest it
\* writes, for the r bytes modbus_receive counted
ReadIoStatusDecode(type_com, resp, nb, r, junk) ==
    LET offset == TAB_HEADER_LENGTH(type_com)
        n == IF 8 * r < nb THEN 8 * r ELSE nb
    IN  [pos \in 1..(IF n > 0 THEN n ELSE 0) |->
            BitOf(Rd(resp, offset + 2 + ((pos - 1) \div 8), junk), (pos - 1) % 8)]

\* read_registers taking the low byte of a 16-bit register first
ReadRegisterValue_low_first(type_com, resp, data_type, i, junk) ==
    LET offset == TAB_HEADER_LENGTH(type_com)
        b(k) == Rd(resp, k, junk)
    IN  IF data_type \in {0, 1} THEN b(offset + 2 + i)
        ELSE IF data_type \in {2, 3}
          THEN b(offset + 3 + 2 * i) * 256 + b(offset + 2 + 2 * i)
        ELSE [hi |-> b(offset + 2 + 4 * i) * 256 + b(offset + 3 + 4 * i),
              lo |-> b(offset + 4 + 4 * i) * 256 + b(offset + 5 + 4 * i)]

\* one element of the decoding loop of read_registers; every signed case
\* falls through into the unsigned case after it
ReadRegisterValue(type_com, resp, data_type, i, junk) ==
    LET offset == TAB_HEADER_LENGTH(type_com)
        b(k) == Rd(resp, k, junk)
    IN  IF data_type \in {0, 1} THEN b(offset + 2 + i)
        ELSE IF data_type \in {2, 3}
          THEN b(offset + 2 + 2 * i) * 256 + b(offset + 3 + 2 * i)
        ELSE \* a 32-bit value, kept as its two 16-bit halves
             [hi |-> b(offset + 2 + 4 * i) * 256 + b(offset + 3 + 4 * i),
              lo |-> b(offset + 4 + 4 * i) * 256 + b(offset + 5 + 4 * i)]

\* the decoding loop of read_registers: the elements of data_dest it writes
ReadRegistersDecode(type_com, resp, data_type, r, junk) ==
    [k \in 1..(IF r > 0 THEN r ELSE 0) |->
        ReadRegisterValue(type_com, resp, data_type, k - 1, junk)]

----------------------------------------------------------------------------
(* Inputs of the model *)

Addrs     == 0..MaxAddr
BitQtys   == (0..MaxQty) \cup {10, MAX_STATUS + 1}
RegQtys   == (0..MaxQty) \cup {MAX_REGISTERS + 1}
DataTypes == {0, 1, 2, 3, 4, 8}   \* I8, U8, I16, U16, I32, F32
RegValues == {0, 4660, 65535}
CoilSrcs  == { << 1, 0, 1, 1, 0, 0, 1, 0, 1, 1 >>, << 0, 1, 1, 0, 1, 0, 0, 1, 0, 0 >> }
RegSrcs   == { << 4660, 255, 65535, 1 >>, << 0, 43981, 258, 2 >> }
Junk      == {1, 165}          \* what a cell the code never wrote may hold
PeerBytes == {0, 3, 5}         \* the bytes a faulty peer puts in a reply
ExceptionCodes == {0, 1, 2, 9, 11, 12, 255}

InitMaps ==
    { [tab_coil_status |-> << 1, 0 >>,
       tab_input_status |-> << 1, 0, 1, 1, 0, 0, 1, 0, 1, 1 >>,
       tab_holding_registers |-> << 4660, 255 >>,
       tab_input_registers |-> << 43981, 1 >>],
      [tab_coil_status |-> << 0, 1 >>,
       tab_input_status |-> << 0, 1, 0, 0, 1, 1, 0, 1, 0, 0 >>,
       tab_holding_registers |-> << 65535, 0 >>,
       tab_input_registers |-> << 258, 32768 >>] }

NoMap == [tab_coil_status |-> << >>, tab_input_status |-> << >>,
          tab_holding_registers |-> << >>, tab_input_registers |-> << >>]

NoOp == [name |-> "none", function |-> 0, start_addr |-> 0, nb |-> 0,
         data_type |-> 0]

\* no receive_msg call in progress
NoRcv == [at |-> "none", state |-> "COMPLETE", msg_length_computed |-> 0,
          length_to_read |-> 0, msg |-> << >>, ret |-> 0, crc16_length |-> -1]

----------------------------------------------------------------------------
(* The sessions after construction and modbus_connect *)

Init ==
    /\ \E t \in {RTU, TCP} :
          /\ mb_param = [type_com |-> t, slave |-> 1, debug |-> 0, fd |-> 0,
                         error_handling |-> FLUSH_OR_CONNECT_ON_ERROR]
          /\ sv_param = [type_com |-> t, slave |-> 1, debug |-> 0, fd |-> 0,
                         error_handling |-> FLUSH_OR_CONNECT_ON_ERROR]
    /\ t_id = 0
    /\ mb_mapping \in InitMaps
    /\ c2s = << >>
    /\ s2c = << >>
    /\ pc = "idle"
    /\ op = NoOp
    /\ query = << >>
    /\ response = << >>
    /\ ret = 0
    /\ data_dest = << >>
    /\ seen = << >>
    /\ peer = "none"
    /\ requests = << >>
    /\ rcv = NoRcv
    /\ configured = mb_param

----------------------------------------------------------------------------
(* Client operations: building and sending the query *)

\* the part of a client operation up to the return of modbus_send: the
\* query is built (the TCP counter advances), completed by modbus_send and
\* written to the transport
SendQuery(name, function, start_addr, nb, data_type, payload) ==
    LET tid == IF mb_param.type_com = TCP THEN NextTid(t_id) ELSE t_id
        sent == SentFrame(mb_param.type_com,
                          build_query_basis(mb_param, tid, function, start_addr, nb)
                              \o payload)
    IN  /\ pc = "idle"
        /\ t_id' = tid
        /\ query' = sent
        /\ c2s' = c2s \o sent
        /\ pc' = "wait"
        /\ op' = [name |-> name, function |-> function, start_addr |-> start_addr,
                  nb |-> nb, data_type |-> data_type]
        /\ mb_param' = IF name = "force_single_coil"
                       THEN [mb_param EXCEPT !.debug = 1] ELSE mb_param
        /\ UNCHANGED << sv_param, mb_mapping, s2c, response, ret, data_dest,
                        seen, peer, requests, rcv,
                    configured >>

\* an early return placed after build_query_basis: the TCP counter advances
RejectQuery_after_basis(name, function, start_addr, nb, data_type) ==
    /\ pc = "idle"
    /\ pc' = "done"
    /\ ret' = INVALID_DATA
    /\ t_id' = IF mb_param.type_com = TCP THEN NextTid(t_id) ELSE t_id
    /\ op' = [name |-> name, function |-> function, start_addr |-> start_addr,
              nb |-> nb, data_type |-> data_type]
    /\ UNCHANGED << mb_param, sv_param, mb_mapping, c2s, s2c, query,
                    response, data_dest, seen, peer, requests, rcv,
                    configured >>

\* the early return of an operation asked for too many values
RejectQuery(name, function, start_addr, nb, data_type) ==
    /\ pc = "idle"
    /\ pc' = "done"
    /\ ret' = INVALID_DATA
    /\ op' = [name |-> name, function |-> function, start_addr |-> start_addr,
              nb |-> nb, data_type |-> data_type]
    /\ UNCHANGED << mb_param, sv_param, t_id, mb_mapping, c2s, s2c, query,
                    response, data_dest, seen, peer, requests, rcv,
                    configured >>

read_coil_status(start_addr, nb) ==
    IF nb > MAX_STATUS
    THEN RejectQuery("read_coil_status", FC_READ_COIL_STATUS, start_addr, nb, UINT16)
    ELSE SendQuery("read_coil_status", FC_READ_COIL_STATUS, start_addr, nb,
                   UINT16, << >>)

read_input_status(start_addr, nb) ==
    IF nb > MAX_STATUS
    THEN RejectQuery("read_input_status", FC_READ_INPUT_STATUS, start_addr, nb, UINT16)
    ELSE SendQuery("read_input_status", FC_READ_INPUT_STATUS, start_addr, nb,
                   UINT16, << >>)

read_holding_registers(start_addr, nb, data_type) ==
    IF nb > MAX_REGISTERS
    THEN RejectQuery("read_holding_registers", FC_READ_HOLDING_REGISTERS,
                     start_addr, nb, data_type)
    ELSE SendQuery("read_holding_registers", FC_READ_HOLDING_REGISTERS,
                   start_addr, nb, data_type, << >>)

read_input_registers(start_addr, nb) ==
    IF nb > MAX_REGISTERS
    THEN RejectQuery("read_input_registers", FC_READ_INPUT_REGISTERS,
                     start_addr, nb, UINT16)
    ELSE SendQuery("read_input_registers", FC_READ_INPUT_REGISTERS,
                   start_addr, nb, UINT16, << >>)

force_single_coil(coil_addr, state) ==
    SendQuery("force_single_coil", FC_FORCE_SINGLE_COIL, coil_addr,
              IF state # 0 THEN 65280 ELSE state, UINT16, << >>)

preset_single_register(reg_addr, value) ==
    SendQuery("preset_single_register", FC_PRESET_SINGLE_REGISTER, reg_addr,
              value, UINT16, << >>)

RECURSIVE CoilByte(_, _, _, _)
\* one data byte of force_multiple_coils: the while loop over bit, from
\* coil pos on, n being the coils left
CoilByte(data_src, pos, n, shift) ==
    IF shift > 7 \/ n <= 0 THEN 0
    ELSE (IF At(data_src, pos) # 0 THEN Pow2(shift) ELSE 0)
           + CoilByte(data_src, pos + 1, n - 1, shift + 1)

force_multiple_coils(start_addr, nb, data_src) ==
    IF nb > MAX_STATUS
    THEN RejectQuery("force_multiple_coils", FC_FORCE_MULTIPLE_COILS,
                     start_addr, nb, UINT16)
    ELSE LET byte_count == ByteCount(nb)
         IN  SendQuery("force_multiple_coils", FC_FORCE_MULTIPLE_COILS,
                       start_addr, nb, UINT16,
                       << byte_count % 256 >>
                         \o [i \in 1..byte_count |->
                                CoilByte(data_src, 8 * (i - 1),
                                         nb - 8 * (i - 1), 0)])

preset_multiple_registers(start_addr, nb, data_src) ==
    IF nb > MAX_REGISTERS
    THEN RejectQuery("preset_multiple_registers", FC_PRESET_MULTIPLE_REGISTERS,
                     start_addr, nb, UINT16)
    ELSE SendQuery("preset_multiple_registers", FC_PRESET_MULTIPLE_REGISTERS,
                   start_addr, nb, UINT16,
                   << (nb * 2) % 256 >>
                     \o [k \in 1..(2 * nb) |->
                            LET v == At(data_src, (k - 1) \div 2)
                            IN  IF (k % 2) = 1 THEN (v \div 256) % 256
                                ELSE v % 256])

----------------------------------------------------------------------------
(* The slave *)

\* a slave that takes every unit byte for its own
SlaveManage_any_unit ==
    /\ c2s # << >>
    /\ LET type_com == sv_param.type_com
           rm == receive_msg_undefined(type_com, c2s)
       IN  IF rm.ret >= 0
           THEN \E junk \in Junk :
                LET mine == At(rm.msg, TAB_HEADER_LENGTH(type_com) - 1)
                    m == modbus_slave_manage([sv_param EXCEPT !.slave = mine],
                                             rm.msg, rm.ret, mb_mapping, junk)
                IN  /\ mb_mapping' = m.map
                    /\ s2c' = IF m.sent THEN s2c \o SentFrame(type_com, m.resp)
                              ELSE s2c
                    /\ c2s' = Drop(c2s, rm.used)
           ELSE /\ c2s' = TreatEffect(sv_param, rm.treats, c2s, rm.used)
                /\ UNCHANGED << mb_mapping, s2c >>
    /\ UNCHANGED << clientVars, sv_param, peer >>

\* a slave whose reads of holding registers clear the registers
SlaveManage_read_clears ==
    /\ c2s # << >>
    /\ LET type_com == sv_param.type_com
           rm == receive_msg_undefined(type_com, c2s)
       IN  IF rm.ret >= 0
           THEN \E junk \in Junk :
                LET m == modbus_slave_manage(sv_param, rm.msg, rm.ret,
                                             mb_mapping, junk)
                IN  /\ mb_mapping' =
                          IF At(rm.msg, TAB_HEADER_LENGTH(type_com))
                                = FC_READ_HOLDING_REGISTERS
                          THEN [m.map EXCEPT !.tab_holding_registers =
                                   [k \in 1..Len(@) |-> 0]]
                          ELSE m.map
                    /\ s2c' = IF m.sent THEN s2c \o SentFrame(type_com, m.resp)
                              ELSE s2c
                    /\ c2s' = Drop(c2s, rm.used)
           ELSE /\ c2s' = TreatEffect(sv_param, rm.treats, c2s, rm.used)
                /\ UNCHANGED << mb_mapping, s2c >>
    /\ UNCHANGED << clientVars, sv_param, peer >>

\* One turn of the slave: modbus_slave_receive reads a query from the
\* transport and, when it returns a length, modbus_slave_manage handles the
\* query and modbus_send writes the response
SlaveManage ==
    /\ c2s # << >>
    /\ LET type_com == sv_param.type_com
           rm == receive_msg_undefined(type_com, c2s)
       IN  IF rm.ret >= 0
           THEN \E junk \in Junk :
                LET m == modbus_slave_manage(sv_param, rm.msg, rm.ret,
                                             mb_mapping, junk)
                IN  /\ mb_mapping' = m.map
                    /\ s2c' = IF m.sent THEN s2c \o SentFrame(type_com, m.resp)
                              ELSE s2c
                    /\ c2s' = Drop(c2s, rm.used)
           ELSE /\ c2s' = TreatEffect(sv_param, rm.treats, c2s, rm.used)
                /\ UNCHANGED << mb_mapping, s2c >>
    /\ UNCHANGED << clientVars, sv_param, peer >>

----------------------------------------------------------------------------
(* A faulty peer or line: what may reach the client instead of the reply *)

\* the integrity-valid exception frame for the query, carrying code
ExceptionFrame(type_com, qry, code) ==
    LET offset == TAB_HEADER_LENGTH(type_com)
        sft == [slave |-> At(qry, offset - 1), function |-> At(qry, offset),
                t_id |-> IF type_com = TCP THEN At(qry, 0) * 256 + At(qry, 1)
                         ELSE 0]
    IN  SentFrame(type_com, response_exception(type_com, sft, 0 - code))

\* the reply with the byte at pos replaced by val, integrity kept: the CRC
\* of an RTU frame is recomputed
Replaced(type_com, frame, pos, val) ==
    IF type_com = RTU
    THEN SentFrame(RTU, Put(Take(frame, Len(frame) - CHECKSUM_LENGTH_RTU), pos, val))
    ELSE Put(frame, pos, val)

\* the peer answers the pending query with an exception frame
PeerException(code) ==
    /\ pc = "wait" /\ peer = "none"
    /\ c2s # << >> /\ s2c = << >>
    /\ c2s' = << >>
    /\ s2c' = ExceptionFrame(mb_param.type_com, query, code)
    /\ peer' = "exception"
    /\ UNCHANGED << clientVars, serverVars >>

\* one byte of the reply is another one, the frame's integrity kept
PeerReplace(pos, val) ==
    /\ pc = "wait" /\ peer = "none"
    /\ Len(s2c) > TAB_CHECKSUM_LENGTH(mb_param.type_com)
    /\ pos < Len(s2c) - TAB_CHECKSUM_LENGTH(mb_param.type_com)
    /\ At(s2c, pos) # val
    /\ s2c' = Replaced(mb_param.type_com, s2c, pos, val)
    /\ peer' = "replaced"
    /\ UNCHANGED << clientVars, serverVars, c2s >>

\* one byte of an RTU reply is damaged on the line
PeerCorrupt(pos) ==
    /\ pc = "wait" /\ peer = "none"
    /\ mb_param.type_com = RTU
    /\ pos < Len(s2c)
    /\ s2c' = Put(s2c, pos, (At(s2c, pos) + 1) % 256)
    /\ peer' = "corrupted"
    /\ UNCHANGED << clientVars, serverVars, c2s >>

\* only the first n bytes of the reply arrive before the client's wait expires
PeerTruncate(n) ==
    /\ pc = "wait" /\ peer = "none"
    /\ n < Len(s2c)
    /\ s2c' = Take(s2c, n)
    /\ peer' = "truncated"
    /\ UNCHANGED << clientVars, serverVars, c2s >>

----------------------------------------------------------------------------
(* Client operations: awaiting and decoding the reply *)

\* the part of a client operation from modbus_receive to its return
ReceiveReply(junk) ==
    /\ pc = "wait"
    /\ LET type_com == mb_param.type_com
           r == modbus_receive(type_com, query, s2c, op.data_type, junk)
       IN  /\ response' = r.response
           /\ s2c' = TreatEffect(mb_param, r.treats, s2c, r.used)
           /\ ret' = IF op.name \in {"read_coil_status", "read_input_status"}
                        /\ r.ret > 0
                     THEN op.nb ELSE r.ret
           /\ data_dest' =
                 IF op.name \in {"read_coil_status", "read_input_status"}
                   THEN ReadIoStatusDecode(type_com, r.response, op.nb, r.ret, junk)
                 ELSE IF op.name \in {"read_holding_registers", "read_input_registers"}
                   THEN ReadRegistersDecode(type_com, r.response, op.data_type,
                                            r.ret, junk)
                 ELSE << >>
    /\ seen' = s2c
    /\ pc' = "done"
    /\ mb_param' =
          TreatParam(IF op.name = "force_single_coil"
                     THEN [mb_param EXCEPT !.debug = 0] ELSE mb_param,
                     modbus_receive(mb_param.type_com, query, s2c,
                                    op.data_type, junk).treats)
    /\ UNCHANGED << sv_param, t_id, mb_mapping, c2s, op, query, peer, requests, rcv,
                    configured >>

----------------------------------------------------------------------------
(* The specification: one client operation against the slave, the reply
   possibly late, damaged or forged *)

Next ==
    \/ \E a \in Addrs, n \in BitQtys : read_coil_status(a, n)
    \/ \E a \in Addrs, n \in BitQtys : read_input_status(a, n)
    \/ \E a \in Addrs, n \in RegQtys, t \in DataTypes : read_holding_registers(a, n, t)
    \/ \E a \in Addrs, n \in RegQtys : read_input_registers(a, n)
    \/ \E a \in Addrs, st \in {0, 1} : force_single_coil(a, st)
    \/ \E a \in Addrs, v \in RegValues : preset_single_register(a, v)
    \/ \E a \in Addrs, n \in BitQtys, d \in CoilSrcs : force_multiple_coils(a, n, d)
    \/ \E a \in Addrs, n \in RegQtys, d \in RegSrcs : preset_multiple_registers(a, n, d)
    \/ SlaveManage
    \/ \E c \in ExceptionCodes : PeerException(c)
    \/ \E i \in 0..11, v \in PeerBytes : PeerReplace(i, v)
    \/ \E i \in 0..12 : PeerCorrupt(i)
    \/ \E n \in 0..12 : PeerTruncate(n)
    \/ \E j \in Junk : ReceiveReply(j)

Spec == Init /\ [][Next]_vars

----------------------------------------------------------------------------
(* The CRC engine alone: modbus_send completes a byte sequence S, one byte
   of the frame may be damaged, check_crc16 judges the frame *)

CrcBytes == {0, 1, 132, 255}     \* the bytes S is made of
DamageBytes == {0, 1, 10, 255}   \* the bytes a damaged cell may hold

InitCrc ==
    /\ mb_param = [type_com |-> RTU, slave |-> 1, debug |-> 0, fd |-> 0,
                   error_handling |-> NOP_ON_ERROR]
    /\ sv_param = [type_com |-> RTU, slave |-> 1, debug |-> 0, fd |-> 0,
                   error_handling |-> NOP_ON_ERROR]
    /\ t_id = 0
    /\ mb_mapping = NoMap
    /\ c2s = << >>
    /\ s2c = << >>
    /\ pc = "crc"
    /\ op = NoOp
    /\ query = << >>
    /\ response = << >>
    /\ ret = 0
    /\ data_dest = << >>
    /\ seen = << >>
    /\ peer = "none"
    /\ requests = << >>
    /\ rcv = NoRcv
    /\ configured = mb_param

\* the caller puts one more byte in the buffer
CrcExtend(b) ==
    /\ pc = "crc"
    /\ Len(query) < MaxCrcLen
    /\ query' = Append(query, b)
    /\ UNCHANGED << mb_param, sv_param, t_id, mb_mapping, c2s, s2c, pc, op,
                    response, ret, data_dest, seen, peer, requests, rcv,
                    configured >>

\* modbus_send (query, query_length) in RTU mode
CrcSend ==
    /\ pc = "crc"
    /\ c2s' = SentFrame(RTU, query)
    /\ pc' = "crc_sent"
    /\ UNCHANGED << mb_param, sv_param, t_id, mb_mapping, s2c, op, query,
                    response, ret, data_dest, seen, peer, requests, rcv,
                    configured >>

\* one byte of the frame changes on the line
CrcDamage(pos, val) ==
    /\ pc = "crc_sent" /\ peer = "none"
    /\ pos < Len(c2s)
    /\ At(c2s, pos) # val
    /\ c2s' = Put(c2s, pos, val)
    /\ peer' = "corrupted"
    /\ UNCHANGED << clientVars, serverVars, s2c >>

\* check_crc16 (msg, msg_length) on the frame received
CrcCheck ==
    /\ pc = "crc_sent"
    /\ ret' = check_crc16(c2s, Len(c2s))
    /\ response' = c2s
    /\ pc' = "crc_checked"
    /\ UNCHANGED << mb_param, sv_param, t_id, mb_mapping, c2s, s2c, op, query,
                    data_dest, seen, peer, requests, rcv,
                    configured >>

NextCrc ==
    \/ \E b \in CrcBytes : CrcExtend(b)
    \/ CrcSend
    \/ \E i \in 0..(MaxCrcLen + 1), v \in DamageBytes : CrcDamage(i, v)
    \/ CrcCheck

SpecCrc == InitCrc /\ [][NextCrc]_vars

----------------------------------------------------------------------------
(* Claims *)

\* the reply modbus_slave_manage and modbus_send give to the query qry
\* against the present map
HonestReply(qry) ==
    SentFrame(sv_param.type_com,
              modbus_slave_manage(sv_param, qry, Len(qry), mb_mapping, 0).resp)

\* C1: for every byte sequence S, the frame S || crc16(S) (high byte, then
\* low byte, as modbus_send appends it) is accepted by check_crc16, which
\* returns the frame length, and every frame that differs from it in
\* exactly one byte is rejected with INVALID_CRC.
C1_CrcAcceptsSentRejectsDamaged ==
    /\ (pc = "crc_sent" /\ peer = "none") =>
          /\ check_crc16(c2s, Len(c2s)) = Len(c2s)
          /\ \A pos \in 0..(Len(c2s) - 1) :
                \A val \in Byte \ {At(c2s, pos)} :
                    check_crc16(Put(c2s, pos, val), Len(c2s)) = INVALID_CRC
    /\ pc = "crc_checked" =>
          ret = (IF peer = "none" THEN Len(query) + 2 ELSE INVALID_CRC)

\* C1 witness: a damaged frame of a non-empty S was judged
C1_Witness ==
    pc = "crc_checked" /\ peer = "corrupted" /\ Len(query) = MaxCrcLen
        /\ ret = INVALID_CRC

\* C2: over RTU, read_holding_registers(addr, Q, U16) answered by
\* modbus_slave_manage on a map with addr + Q <= nb_holding_registers
\* returns Q and stores holding[addr + i] in data_dest[i] for every i < Q;
\* the request is unit, 0x03, addr and Q big-endian, CRC high then low
\* (01 03 00 00 00 01 84 0A for unit 1, addr 0, Q 1), and holding[0] =
\* 0x1234 yields the reply 01 03 02 12 34 B5 33 and the result [0x1234].
C2_Answered ==
    /\ pc = "done"
    /\ mb_param.type_com = RTU
    /\ op.name = "read_holding_registers"
    /\ op.data_type = UINT16
    /\ op.nb <= MAX_REGISTERS
    /\ op.start_addr + op.nb <= Len(mb_mapping.tab_holding_registers)
    /\ seen = HonestReply(query)

C2_ReadHoldingRegistersRoundTrip ==
    C2_Answered =>
        /\ ret = op.nb
        /\ data_dest = [i \in 1..op.nb |->
                           mb_mapping.tab_holding_registers[op.start_addr + i]]
        /\ Len(query) = 8
        /\ Take(query, 6) = << mb_param.slave, 3,
                               op.start_addr \div 256, op.start_addr % 256,
                               op.nb \div 256, op.nb % 256 >>
        /\ (mb_param.slave = 1 /\ op.start_addr = 0 /\ op.nb = 1) =>
              /\ query = << 1, 3, 0, 0, 0, 1, 132, 10 >>
              /\ mb_mapping.tab_holding_registers[1] = 4660 =>
                    /\ seen = << 1, 3, 2, 18, 52, 181, 51 >>
                    /\ data_dest = << 4660 >>

\* C2 witness: the scenario's request was answered from holding[0] = 0x1234
C2_Witness ==
    /\ C2_Answered
    /\ op.start_addr = 0 /\ op.nb = 1
    /\ mb_mapping.tab_holding_registers[1] = 4660
    /\ ret = 1

\* C3: read_coil_status / read_input_status(addr, Q) answered by
\* modbus_slave_manage on a map with addr + Q <= length returns Q and sets
\* data_dest[i] to TRUE exactly when map bit addr + i is set, for every
\* i < Q; over TCP with transaction 0x0001, the inputs 1,0,1,1,0,0,1,0,1,1
\* give the reply 00 01 00 00 00 05 01 02 02 4D 03 and the 10 values in
\* that order.
C3_Tab ==
    IF op.name = "read_coil_status" THEN mb_mapping.tab_coil_status
    ELSE mb_mapping.tab_input_status

C3_Answered ==
    /\ pc = "done"
    /\ op.name \in {"read_coil_status", "read_input_status"}
    /\ op.nb <= MAX_STATUS
    /\ op.start_addr + op.nb <= Len(C3_Tab)
    /\ seen = HonestReply(query)

C3_ReadBitsRoundTrip ==
    C3_Answered =>
        /\ ret = op.nb
        /\ Len(data_dest) = op.nb
        /\ \A i \in 1..op.nb :
              (data_dest[i] = 1) <=> (C3_Tab[op.start_addr + i] = 1)
        /\ \A i \in 1..op.nb : data_dest[i] \in {0, 1}
        /\ (mb_param.type_com = TCP /\ op.name = "read_input_status"
              /\ op.start_addr = 0 /\ op.nb = 10
              /\ mb_mapping.tab_input_status = << 1, 0, 1, 1, 0, 0, 1, 0, 1, 1 >>) =>
              /\ query = << 0, 1, 0, 0, 0, 6, 1, 2, 0, 0, 0, 10 >>
              /\ seen = << 0, 1, 0, 0, 0, 5, 1, 2, 2, 77, 3 >>
              /\ data_dest = << 1, 0, 1, 1, 0, 0, 1, 0, 1, 1 >>

\* C3 witness: the TCP scenario's ten inputs were read
C3_Witness ==
    /\ C3_Answered
    /\ mb_param.type_com = TCP /\ op.name = "read_input_status"
    /\ op.start_addr = 0 /\ op.nb = 10
    /\ mb_mapping.tab_input_status = << 1, 0, 1, 1, 0, 0, 1, 0, 1, 1 >>
    /\ ret = 10

\* A client operation sent its query and modbus_receive has returned
Awaited == pc = "done" /\ query # << >>

ReqFn == At(query, TAB_HEADER_LENGTH(mb_param.type_com))
RespFn == At(response, TAB_HEADER_LENGTH(mb_param.type_com))

\* the reply arrived in its full expected length and passed receive_msg's
\* integrity check; response then holds exactly those bytes
FullValidReply ==
    LET computed == compute_response_length(mb_param.type_com, query, op.data_type)
    IN  /\ Awaited
        /\ computed # MSG_LENGTH_UNDEFINED
        /\ Len(seen) >= computed
        /\ mb_param.type_com = RTU =>
              check_crc16(Take(seen, computed), computed) = computed

\* what arrived is an integrity-valid exception frame for the
\* query: function byte = request function OR 0x80, then the code
IsExceptionReply ==
    /\ Awaited
    /\ Len(seen) = TAB_HEADER_LENGTH(mb_param.type_com) + 2
                     + TAB_CHECKSUM_LENGTH(mb_param.type_com)
    /\ seen = ExceptionFrame(mb_param.type_com, query,
                             At(seen, TAB_HEADER_LENGTH(mb_param.type_com) + 1))

ExceptionCodeSeen == At(seen, TAB_HEADER_LENGTH(mb_param.type_com) + 1)

\* C4: when the slave answers a request with an integrity-valid exception
\* frame (function byte = request function OR 0x80), the client operation
\* returns the negative exception code if the code is in 0x01..0x0B and
\* InvalidExceptionCode for every other code (0x00 and the codes from 0x0C
\* on included); it never returns a non-negative value.
C4_ExceptionFrameReturnsError ==
    IsExceptionReply =>
        ret = (IF ExceptionCodeSeen \in 1..11 THEN 0 - ExceptionCodeSeen
               ELSE INVALID_EXCEPTION_CODE)

\* C5: a client operation accepts a reply as success only if the reply's
\* function-code byte equals the function code of the request; a
\* full-length reply carrying any other function code (that is not request
\* function OR 0x80) is rejected with a negative result.
C5_OtherFunctionCodeRejected ==
    (FullValidReply /\ RespFn # ReqFn /\ RespFn # ReqFn + 128) => ret < 0

\* C6: over TCP, a reply whose MBAP transaction id differs from the id
\* build_query_basis_tcp wrote into the request is not returned as a success.
C6_OtherTransactionIdRejected ==
    (FullValidReply /\ mb_param.type_com = TCP
        /\ Take(response, 2) # Take(query, 2)) => ret < 0

Ceil8(q) == (q + 7) \div 8

\* the byte-count field of the reply
ByteCountField == At(response, TAB_HEADER_LENGTH(mb_param.type_com) + 1)

\* C7: for read coils / read discrete inputs with requested quantity Q, a
\* full-length (integrity-valid, function-code echoing) reply whose
\* byte-count field B differs from ceil(Q/8) makes the operation return
\* InvalidData, and a reply with B = ceil(Q/8) is accepted (Q is returned).
C7_BitReadReply ==
    /\ FullValidReply
    /\ op.name \in {"read_coil_status", "read_input_status"}
    /\ RespFn = ReqFn

C7_BitReadByteCountChecked ==
    C7_BitReadReply =>
        ret = (IF ByteCountField = Ceil8(op.nb) THEN op.nb ELSE INVALID_DATA)

\* C7 witness: a full-length reply with a wrong byte count was refused
C7_Witness ==
    /\ C7_BitReadReply
    /\ op.nb = 10 /\ ByteCountField # 2
    /\ ret = INVALID_DATA

\* bytes_per_value of the data-type tags I8, U8, I16, U16, I32, U32
BytesPerValue(t) == IF t \in {0, 1} THEN 1 ELSE IF t \in {2, 3} THEN 2 ELSE 4

\* C8: for read holding/input registers with requested quantity Q and
\* data-type tag t, the client accepts the reply only if its byte-count
\* field B is exactly Q * bytes_per_value(t); otherwise (B no multiple of
\* bytes_per_value(t), or B / bytes_per_value(t) # Q) it returns
\* InvalidData.  Stated for the tags I8 .. U32, whose bytes_per_value the
\* code and the specification agree on.
C8_RegisterReadByteCountExact ==
    (/\ FullValidReply
     /\ op.name \in {"read_holding_registers", "read_input_registers"}
     /\ op.data_type \in 0..5
     /\ RespFn = ReqFn) =>
        ret = (IF ByteCountField = op.nb * BytesPerValue(op.data_type)
               THEN op.nb ELSE INVALID_DATA)

\* the four bytes after the function code: address and quantity (or value)
AfterFn(buf) ==
    SubSeq(buf, TAB_HEADER_LENGTH(mb_param.type_com) + 2,
                TAB_HEADER_LENGTH(mb_param.type_com) + 5)

\* C9: for write multiple coils / registers, the client accepts the reply
\* only if both the address and the quantity echoed in it equal those of
\* the request; a reply echoing a different address is rejected.
C9_MultipleWriteEchoChecked ==
    (/\ FullValidReply
     /\ op.name \in {"force_multiple_coils", "preset_multiple_registers"}
     /\ RespFn = ReqFn
     /\ AfterFn(response) # AfterFn(query)) => ret < 0

\* C10: for write single coil and write single register, the client
\* accepts the reply only if its payload after the function code (address
\* and value) is byte-for-byte that of the request; a reply with the same
\* function code but another address or value is rejected.
C10_SingleWriteEchoChecked ==
    (/\ FullValidReply
     /\ op.name \in {"force_single_coil", "preset_single_register"}
     /\ RespFn = ReqFn
     /\ AfterFn(response) # AfterFn(query)) => ret < 0

\* the largest quantity the client operation `name` sends a query for
QuantityLimit(name) ==
    IF name \in {"read_coil_status", "read_input_status", "force_multiple_coils"}
    THEN MAX_STATUS ELSE MAX_REGISTERS

\* the six operations that take a quantity
QuantityOps ==
    {"read_coil_status", "read_input_status", "force_multiple_coils",
     "read_holding_registers", "read_input_registers",
     "preset_multiple_registers"}

\* C11: read_coil_status, read_input_status and force_multiple_coils called
\* with a quantity above MAX_STATUS, and read_holding_registers,
\* read_input_registers and preset_multiple_registers called with a quantity
\* above MAX_REGISTERS, return InvalidData before any I/O: the step of such
\* a call writes nothing to the transport, reads nothing from it (no
\* receive, no flush, no reconnect), leaves the session as it is and does
\* not advance the TCP transaction counter.
C11_TooManyRejectedBeforeIO ==
    [][ (/\ pc = "idle"
         /\ op'.name \in QuantityOps
         /\ op'.nb > QuantityLimit(op'.name))
        => (/\ pc' = "done"
            /\ ret' = INVALID_DATA
            /\ UNCHANGED << c2s, s2c, t_id, mb_param, query, response, seen,
                            data_dest, serverVars >>) ]_vars

\* C11 witness: a write of MAX_STATUS + 1 coils over TCP was refused
C11_Witness ==
    /\ pc = "done"
    /\ mb_param.type_com = TCP
    /\ op.name = "force_multiple_coils" /\ op.nb = MAX_STATUS + 1
    /\ ret = INVALID_DATA
    /\ c2s = << >> /\ t_id = 0

\* C12: a failure is never turned into a success: whenever the reply
\* actually received is not a complete, integrity-valid reply of the expected
\* length to the request (in particular when reception stops early on a
\* timeout), the client operation returns a negative value.  Stated for the
\* replies that are no exception frame for the request.
C12_IncompleteReplyIsFailure ==
    (Awaited /\ ~FullValidReply /\ ~IsExceptionReply) => ret < 0

\* the length the MBAP header of a TCP frame declares (bytes 4..5)
MbapLength(frame) == At(frame, 4) * 256 + At(frame, 5)

\* C13: a TCP frame whose declared MBAP length differs from (received
\* length - 6) is not returned as a successfully received frame: the
\* operation that received it as its full-length reply fails.
C13_MbapLengthConsistent ==
    (/\ FullValidReply
     /\ mb_param.type_com = TCP
     /\ MbapLength(response) # Len(response) - 6) => ret < 0

----------------------------------------------------------------------------
(* The slave against any master: a master writes one query frame, well
   formed or not, and the slave handles it; the multiple writes of the
   client run against the same slave *)

SrvSlaves    == {0, 1, 2}      \* broadcast, the slave's unit, another unit
SrvFunctions == {1, 2, 3, 4, 5, 6, 7, 8, 15, 16, 17}
SrvAddrs     == {0, 1, 19, 65535}
SrvValues    == {0, 1, 2, 3, 10, 11, 4660, 65280}
SrvKinds     == {"a", "b", "short"}
SrvCoilSrcs  == { << 1, 0, 1, 1, 0, 0, 1, 1, 1, 0 >>, << 0, 1, 0, 0, 1, 1, 0, 0, 0, 1 >> }

\* the maps of the slave: 29 coils, 10 inputs, 3 holding and 2 input registers
ServerMaps ==
    { [tab_coil_status |-> [k \in 1..29 |-> k % 2],
       tab_input_status |-> << 1, 0, 1, 1, 0, 0, 1, 0, 1, 1 >>,
       tab_holding_registers |-> << 4660, 255, 65535 >>,
       tab_input_registers |-> << 43981, 1 >>],
      [tab_coil_status |-> [k \in 1..29 |-> IF (k % 3) = 0 THEN 1 ELSE 0],
       tab_input_status |-> << 0, 1, 0, 0, 1, 1, 0, 1, 0, 0 >>,
       tab_holding_registers |-> << 65535, 0, 258 >>,
       tab_input_registers |-> << 258, 32768 >> ] }

\* the data bytes a master puts after the byte count of a multiple write
SrvData(kind, n) ==
    LET pat == IF kind = "b" THEN << 50, 2, 171, 205, 0 >>
               ELSE << 205, 1, 18, 52, 255 >>
    IN  [k \in 1..n |-> pat[((k - 1) % 5) + 1]]

\* what follows the function code in the query of a master: address and
\* value (or quantity), then for a multiple write the byte count and the
\* data, a "short" one carrying a single byte (coils) or word (registers)
SrvBody(function, address, value, kind) ==
    LET basis == << (address \div 256) % 256, address % 256,
                    (value \div 256) % 256, value % 256 >>
        count == IF kind = "short"
                 THEN (IF function = FC_FORCE_MULTIPLE_COILS THEN 1 ELSE 2)
                 ELSE IF function = FC_FORCE_MULTIPLE_COILS
                   THEN ByteCount(value) % 256
                 ELSE (2 * value) % 256
    IN  IF function \in {FC_FORCE_MULTIPLE_COILS, FC_PRESET_MULTIPLE_REGISTERS}
          THEN basis \o << count >> \o SrvData(kind, count)
        ELSE IF function \in {FC_READ_EXCEPTION_STATUS, 8, FC_REPORT_SLAVE_ID}
          THEN (IF kind = "short" THEN << >> ELSE << 0 >>)
        ELSE basis

InitServer ==
    /\ \E t \in {RTU, TCP} :
          /\ mb_param = [type_com |-> t, slave |-> 1, debug |-> 0, fd |-> 0,
                         error_handling |-> FLUSH_OR_CONNECT_ON_ERROR]
          /\ sv_param = [type_com |-> t, slave |-> 1, debug |-> 0, fd |-> 0,
                         error_handling |-> FLUSH_OR_CONNECT_ON_ERROR]
    /\ t_id = 0
    /\ mb_mapping \in ServerMaps
    /\ c2s = << >>
    /\ s2c = << >>
    /\ pc = "idle"
    /\ op = NoOp
    /\ query = << >>
    /\ response = << >>
    /\ ret = 0
    /\ data_dest = << >>
    /\ seen = << >>
    /\ peer = "none"
    /\ requests = << >>
    /\ rcv = NoRcv
    /\ configured = mb_param

\* a master writes the frame of one query to the transport; over TCP its
\* MBAP length field is the right one or, when mbap_ok is FALSE, zero
MasterQuery(slave, function, address, value, kind, mbap_ok) ==
    LET type_com == sv_param.type_com
        head == IF type_com = RTU THEN << slave, function >>
                ELSE << 0, 1, 0, 0, 0, 0, slave, function >>
        sent == SentFrame(type_com,
                          head \o SrvBody(function, address, value, kind))
        frame == IF type_com = TCP /\ ~mbap_ok
                 THEN Put(Put(sent, 4, 0), 5, 0) ELSE sent
    IN  /\ pc = "idle"
        /\ type_com = RTU => mbap_ok
        /\ function \in {FC_FORCE_MULTIPLE_COILS, FC_PRESET_MULTIPLE_REGISTERS}
              => value <= 11
        /\ query' = frame
        /\ c2s' = c2s \o frame
        /\ pc' = "master"
        /\ UNCHANGED << mb_param, sv_param, t_id, mb_mapping, s2c, op, response,
                        ret, data_dest, seen, peer, requests, rcv,
                    configured >>

\* the master writes its read query a second time, once the slave has taken
\* the first one from the transport
MasterRepeat ==
    /\ pc = "master"
    /\ c2s = << >>
    /\ Len(query) > TAB_HEADER_LENGTH(sv_param.type_com)
    /\ At(query, TAB_HEADER_LENGTH(sv_param.type_com))
          \in {FC_READ_COIL_STATUS, FC_READ_INPUT_STATUS,
               FC_READ_HOLDING_REGISTERS, FC_READ_INPUT_REGISTERS}
    /\ c2s' = query
    /\ pc' = "again"
    /\ UNCHANGED << mb_param, sv_param, t_id, mb_mapping, s2c, op, query,
                    response, ret, data_dest, seen, peer, requests, rcv,
                    configured >>

NextServer ==
    \/ \E u \in SrvSlaves, f \in SrvFunctions, a \in SrvAddrs, v \in SrvValues,
          k \in SrvKinds, m \in BOOLEAN : MasterQuery(u, f, a, v, k, m)
    \/ MasterRepeat
    \/ \E a \in {0, 19}, n \in {1, 10}, d \in SrvCoilSrcs :
          force_multiple_coils(a, n, d)
    \/ \E a \in Addrs, n \in {1, 2}, d \in RegSrcs :
          preset_multiple_registers(a, n, d)
    \/ SlaveManage
    \/ \E j \in Junk : ReceiveReply(j)

SpecServer == InitServer /\ [][NextServer]_vars

----------------------------------------------------------------------------
(* Claims about the slave *)

\* what modbus_slave_receive makes of the bytes waiting on the transport
SrvRx == receive_msg_undefined(sv_param.type_com, c2s)

\* this step is a turn of the slave in which modbus_slave_manage is called
SrvManaged == c2s # << >> /\ c2s' # c2s /\ SrvRx.ret >= 0

\* the fields of a query frame q of the slave's transport
SrvUnit(q)     == At(q, TAB_HEADER_LENGTH(sv_param.type_com) - 1)
SrvFunction(q) == At(q, TAB_HEADER_LENGTH(sv_param.type_com))
SrvAddress(q)  == At(q, TAB_HEADER_LENGTH(sv_param.type_com) + 1) * 256
                    + At(q, TAB_HEADER_LENGTH(sv_param.type_com) + 2)
SrvQuantity(q) == At(q, TAB_HEADER_LENGTH(sv_param.type_com) + 3) * 256
                    + At(q, TAB_HEADER_LENGTH(sv_param.type_com) + 4)

SrvForMe(q) ==
    SrvUnit(q) = sv_param.slave \/ SrvUnit(q) = MODBUS_BROADCAST_ADDRESS

\* the master's query was received whole by the slave, which has handled it
SrvHandled ==
    /\ pc = "master" /\ c2s = << >>
    /\ receive_msg_undefined(sv_param.type_com, query).ret = Len(query)

\* the map sequence the function code of q targets
SrvTarget(q, map) ==
    IF SrvFunction(q) \in {1, 5, 15} THEN map.tab_coil_status
    ELSE IF SrvFunction(q) = 2 THEN map.tab_input_status
    ELSE IF SrvFunction(q) = 4 THEN map.tab_input_registers
    ELSE map.tab_holding_registers

\* q addresses entries the target sequence does not have
SrvOutOfRange(q, map) ==
    \/ /\ SrvFunction(q) \in {1, 2, 3, 4, 15, 16}
       /\ SrvAddress(q) + SrvQuantity(q) > Len(SrvTarget(q, map))
    \/ /\ SrvFunction(q) \in {5, 6}
       /\ SrvAddress(q) >= Len(SrvTarget(q, map))

\* the frame of the exception `code` answering q: the unit, the function
\* byte OR 0x80, the code, under the transaction id of q (TCP) or a CRC (RTU)
SrvExceptionFrame(q, code) ==
    IF sv_param.type_com = RTU
    THEN SentFrame(RTU, << SrvUnit(q), SrvFunction(q) + 128, code >>)
    ELSE << At(q, 0), At(q, 1), 0, 0, 0, 3,
            SrvUnit(q), SrvFunction(q) + 128, code >>

\* C14: modbus_slave_manage given a query whose unit byte is neither the
\* session's unit nor 0 (broadcast) drops it silently: nothing is written
\* to the transport and no entry of the coil/register map changes.
C14_OtherUnitDropped ==
    [][ (SrvManaged /\ ~SrvForMe(SrvRx.msg))
        => (s2c' = s2c /\ mb_mapping' = mb_mapping) ]_vars

\* C14 witness: an in-range register write for unit 2 was received whole
\* and left unanswered
C14_Witness ==
    /\ SrvHandled
    /\ SrvUnit(query) = 2
    /\ SrvFunction(query) = FC_PRESET_SINGLE_REGISTER
    /\ SrvAddress(query) = 1 /\ SrvQuantity(query) = 4660
    /\ s2c = << >>
    /\ mb_mapping \in ServerMaps

\* C15: for every query with function code in {1, 2, 3, 4, 15, 16} whose
\* address + quantity exceeds the length of the target map sequence, and
\* every 5/6 query whose address is not below that length,
\* modbus_slave_manage transmits exactly one exception frame, whose
\* function byte is the request's OR 0x80 followed by the code 0x02, and
\* leaves every map entry unchanged.
C15_OutOfRangeIsIllegalAddress ==
    [][ (SrvManaged /\ SrvForMe(SrvRx.msg)
            /\ SrvOutOfRange(SrvRx.msg, mb_mapping))
        => (/\ s2c' = s2c \o SrvExceptionFrame(SrvRx.msg, 2)
            /\ mb_mapping' = mb_mapping) ]_vars

\* C15 witness: a write of 11 coils at address 19 of 29 coils was answered
\* with the exception 0x8F 0x02
C15_Witness ==
    /\ SrvHandled
    /\ SrvUnit(query) = 1
    /\ SrvFunction(query) = FC_FORCE_MULTIPLE_COILS
    /\ SrvAddress(query) = 19 /\ SrvQuantity(query) = 11
    /\ s2c = SrvExceptionFrame(query, 2)
    /\ mb_mapping \in ServerMaps

\* C16: for a write-single-coil query (0x05) with an in-range address,
\* modbus_slave_manage accepts only the values 0xFF00 and 0x0000; for any
\* other value it answers with the exception ILLEGAL_DATA_VALUE (0x03) and
\* leaves the coil map unchanged.
C16_SingleCoilValueChecked ==
    [][ (SrvManaged /\ SrvForMe(SrvRx.msg)
            /\ SrvFunction(SrvRx.msg) = FC_FORCE_SINGLE_COIL
            /\ SrvAddress(SrvRx.msg) < Len(mb_mapping.tab_coil_status)
            /\ SrvQuantity(SrvRx.msg) \notin {65280, 0})
        => (/\ s2c' = s2c \o SrvExceptionFrame(SrvRx.msg, 3)
            /\ mb_mapping' = mb_mapping) ]_vars

\* C16 witness: the value 0x0001 for coil 19 was refused
C16_Witness ==
    /\ SrvHandled
    /\ SrvUnit(query) = 1
    /\ SrvFunction(query) = FC_FORCE_SINGLE_COIL
    /\ SrvAddress(query) = 19 /\ SrvQuantity(query) = 1
    /\ s2c = SrvExceptionFrame(query, 3)
    /\ mb_mapping \in ServerMaps

\* the master's query is a single write the slave accepts
C17_AcceptedSingleWrite ==
    /\ SrvHandled
    /\ SrvForMe(query)
    /\ SrvFunction(query) \in {FC_FORCE_SINGLE_COIL, FC_PRESET_SINGLE_REGISTER}
    /\ SrvAddress(query) < Len(SrvTarget(query, mb_mapping))
    /\ SrvFunction(query) = FC_FORCE_SINGLE_COIL
          => SrvQuantity(query) \in {65280, 0}

\* C17: for an accepted single write (0x05 with value 0xFF00/0x0000, or
\* 0x06) at an in-range address, modbus_slave_manage sets exactly that one
\* map entry (coil ON iff the value is 0xFF00; holding[address] = value),
\* leaves all other entries unchanged, and transmits a response that is
\* byte-for-byte identical to the received query frame (the recomputed CRC
\* of RTU and the MBAP length of TCP included).
C17_SingleWriteAppliedAndEchoed ==
    C17_AcceptedSingleWrite =>
        /\ s2c = query
        /\ \E m \in ServerMaps :
              mb_mapping =
                IF SrvFunction(query) = FC_FORCE_SINGLE_COIL
                THEN [m EXCEPT !.tab_coil_status[SrvAddress(query) + 1] =
                                   IF SrvQuantity(query) = 65280 THEN 1 ELSE 0]
                ELSE [m EXCEPT !.tab_holding_registers[SrvAddress(query) + 1] =
                                   SrvQuantity(query)]

\* bit i of the payload of a write-multiple-coils query, LSB first per byte
PayloadBit(q, i) ==
    (At(q, TAB_HEADER_LENGTH(sv_param.type_com) + 6 + (i \div 8))
        \div Pow2(i % 8)) % 2

\* the i-th big-endian word of the payload of a write-multiple-registers query
PayloadWord(q, i) ==
    At(q, TAB_HEADER_LENGTH(sv_param.type_com) + 6 + (2 * i)) * 256
      + At(q, TAB_HEADER_LENGTH(sv_param.type_com) + 7 + (2 * i))

\* the byte count of q is the one its quantity asks for
SrvCountFits(q) ==
    At(q, TAB_HEADER_LENGTH(sv_param.type_com) + 5) =
        IF SrvFunction(q) = FC_FORCE_MULTIPLE_COILS
        THEN Ceil8(SrvQuantity(q)) ELSE 2 * SrvQuantity(q)

\* tab with the n entries from address a on replaced by val(0) .. val(n-1)
Written(tab, a, n, val(_)) ==
    [k \in 1..Len(tab) |->
        IF (k - 1) >= a /\ (k - 1) < a + n THEN val(k - 1 - a) ELSE tab[k]]

\* header + the address and the quantity of q, as modbus_send completes it
SrvEchoFrame(q) ==
    IF sv_param.type_com = RTU
    THEN SentFrame(RTU, Take(q, 6))
    ELSE << At(q, 0), At(q, 1), 0, 0, 0, 6 >> \o SubSeq(q, 7, 12)

\* the request of scenario S4 and the coils it writes
S4_Coils == << 1, 0, 1, 1, 0, 0, 1, 1, 1, 0 >>
S4_Request == SentFrame(RTU, << 1, 15, 0, 19, 0, 10, 2, 205, 1 >>)
S4_Reply == SentFrame(RTU, << 1, 15, 0, 19, 0, 10 >>)

C18_S4 ==
    /\ pc = "done"
    /\ mb_param.type_com = RTU
    /\ op.name = "force_multiple_coils"
    /\ op.start_addr = 19 /\ op.nb = 10
    /\ query = S4_Request

\* C18: for an in-range write-multiple query (0x0F or 0x10) with address a
\* and quantity n, modbus_slave_manage updates the map so that coils[a+i]
\* is bit i of the payload, LSB first per byte (0x0F), or holding[a+i] is
\* the i-th big-endian payload word (0x10), for all i < n, leaves every
\* entry outside [a, a+n) unchanged, and responds with header + the
\* query's address and quantity; the client's force_multiple_coils /
\* preset_multiple_registers then returns n (10 for the S4 request).
C18_MultipleWriteApplied ==
    /\ [][ (/\ SrvManaged /\ SrvForMe(SrvRx.msg)
            /\ SrvFunction(SrvRx.msg) \in {FC_FORCE_MULTIPLE_COILS,
                                           FC_PRESET_MULTIPLE_REGISTERS}
            /\ ~SrvOutOfRange(SrvRx.msg, mb_mapping)
            /\ SrvCountFits(SrvRx.msg))
           => LET q == SrvRx.msg
                  a == SrvAddress(q)
                  n == SrvQuantity(q)
                  bit(i) == PayloadBit(q, i)
                  word(i) == PayloadWord(q, i)
              IN  /\ mb_mapping' =
                       IF SrvFunction(q) = FC_FORCE_MULTIPLE_COILS
                       THEN [mb_mapping EXCEPT !.tab_coil_status =
                                                   Written(@, a, n, bit)]
                       ELSE [mb_mapping EXCEPT !.tab_holding_registers =
                                                   Written(@, a, n, word)]
                  /\ s2c' = s2c \o SrvEchoFrame(q) ]_vars
    /\ [] ((/\ pc = "done"
            /\ op.name \in {"force_multiple_coils", "preset_multiple_registers"}
            /\ seen # << >>
            /\ op.start_addr + op.nb <=
                  Len(IF op.name = "force_multiple_coils"
                      THEN mb_mapping.tab_coil_status
                      ELSE mb_mapping.tab_holding_registers))
           => (/\ ret = op.nb
               /\ C18_S4 => seen = S4_Reply))

\* C18 witness: the S4 request wrote its ten coils and the client returned 10
C18_Witness ==
    /\ C18_S4
    /\ seen = S4_Reply
    /\ ret = 10
    /\ \A i \in 1..10 : mb_mapping.tab_coil_status[19 + i] = S4_Coils[i]

\* data byte k (from 0) of a read of the n bits tab[a ..]: bit j of the
\* byte is entry a + 8k + j, the bits past the n-th are zero
PackedByte(tab, a, n, k) ==
    LET b(j) == IF (8 * k) + j < n THEN tab[a + (8 * k) + j + 1] ELSE 0
    IN  b(0) + (2 * b(1)) + (4 * b(2)) + (8 * b(3)) + (16 * b(4))
          + (32 * b(5)) + (64 * b(6)) + (128 * b(7))

\* byte count and data of the response to the in-range read query q
SrvReadData(q, map) ==
    LET a == SrvAddress(q)
        n == SrvQuantity(q)
        tab == SrvTarget(q, map)
    IN  IF SrvFunction(q) \in {FC_READ_COIL_STATUS, FC_READ_INPUT_STATUS}
        THEN << Ceil8(n) >> \o [k \in 1..Ceil8(n) |-> PackedByte(tab, a, n, k - 1)]
        ELSE << 2 * n >>
               \o [k \in 1..(2 * n) |->
                      IF (k % 2) = 1 THEN tab[a + ((k + 1) \div 2)] \div 256
                      ELSE tab[a + (k \div 2)] % 256]

\* C19: for an in-range read query, the server response is header, byte
\* count, data, where for bit reads the data holds the requested bits
\* packed LSB-first per byte in address order with the unused high bits of
\* the last byte zero, and for register reads the data holds each requested
\* register as a big-endian 16-bit word in address order.
C19_ReadResponseLayout ==
    [][ (/\ SrvManaged /\ SrvForMe(SrvRx.msg)
         /\ SrvFunction(SrvRx.msg) \in {1, 2, 3, 4}
         /\ ~SrvOutOfRange(SrvRx.msg, mb_mapping))
        => LET q == SrvRx.msg
               header == IF sv_param.type_com = RTU
                         THEN << SrvUnit(q), SrvFunction(q) >>
                         ELSE << At(q, 0), At(q, 1), 0, 0, 0, 0,
                                 SrvUnit(q), SrvFunction(q) >>
           IN  /\ s2c' = s2c \o SentFrame(sv_param.type_com,
                                          header \o SrvReadData(q, mb_mapping))
               /\ mb_mapping' = mb_mapping ]_vars

\* C19 witness: ten inputs 1,0,1,1,0,0,1,0,1,1 were read over TCP as 4D 03
C19_Witness ==
    /\ SrvHandled
    /\ sv_param.type_com = TCP
    /\ SrvUnit(query) = 1
    /\ SrvFunction(query) = FC_READ_INPUT_STATUS
    /\ SrvAddress(query) = 0 /\ SrvQuantity(query) = 10
    /\ s2c = << 0, 1, 0, 0, 0, 5, 1, 2, 2, 77, 3 >>

\* C20: for a query addressed to this unit with an unimplemented function
\* code (read exception status 0x07, report slave id 0x11),
\* modbus_slave_manage transmits nothing at all on the transport, in RTU
\* as well as in TCP mode.
C20_UnimplementedSilent ==
    (/\ SrvHandled
     /\ SrvUnit(query) = sv_param.slave
     /\ SrvFunction(query) \in {FC_READ_EXCEPTION_STATUS, FC_REPORT_SLAVE_ID})
        => s2c = << >>

\* C21: a query with a read function code (0x01..0x04) never modifies the
\* coil/register map, and the same read query handled a second time by
\* modbus_slave_manage, the map unchanged in between, is answered with the
\* same frame as the first time.
C21_ReadsRepeatable ==
    [][ (SrvManaged /\ SrvFunction(SrvRx.msg) \in {1, 2, 3, 4})
        => (/\ mb_mapping' = mb_mapping
            /\ pc = "again" => s2c' = s2c \o s2c) ]_vars

\* C21 witness: two holding registers were read twice from address 1 and
\* both responses carry the same four data bytes
C21_Witness ==
    /\ pc = "again" /\ c2s = << >>
    /\ SrvUnit(query) = 1
    /\ SrvFunction(query) = FC_READ_HOLDING_REGISTERS
    /\ SrvAddress(query) = 1 /\ SrvQuantity(query) = 2
    /\ LET offset == TAB_HEADER_LENGTH(sv_param.type_com)
           reply == Take(s2c, Len(s2c) \div 2)
       IN  /\ Len(reply) = offset + 6 + TAB_CHECKSUM_LENGTH(sv_param.type_com)
           /\ s2c = reply \o reply
           /\ At(reply, offset + 1) = 4
           /\ At(reply, offset + 2) * 256 + At(reply, offset + 3)
                 = mb_mapping.tab_holding_registers[2]
           /\ At(reply, offset + 4) * 256 + At(reply, offset + 5)
                 = mb_mapping.tab_holding_registers[3]
           /\ mb_mapping.tab_holding_registers[2] # 0

----------------------------------------------------------------------------
(* One register or coil read under either error policy, on a transport
   that may fail: the write or the wait may fail, the peer may close the
   connection, and bytes may follow the reply *)

StaleBytes == << 7, 7 >>

InitFault ==
    /\ \E t \in {RTU, TCP}, e \in {FLUSH_OR_CONNECT_ON_ERROR, NOP_ON_ERROR} :
          /\ mb_param = [type_com |-> t, slave |-> 1, debug |-> 0, fd |-> 0,
                         error_handling |-> e]
          /\ sv_param = [type_com |-> t, slave |-> 1, debug |-> 0, fd |-> 0,
                         error_handling |-> FLUSH_OR_CONNECT_ON_ERROR]
    /\ t_id = 0
    /\ mb_mapping \in InitMaps
    /\ c2s = << >>
    /\ s2c = << >>
    /\ pc = "idle"
    /\ op = NoOp
    /\ query = << >>
    /\ response = << >>
    /\ ret = 0
    /\ data_dest = << >>
    /\ seen = << >>
    /\ peer = "none"
    /\ requests = << >>
    /\ rcv = NoRcv
    /\ configured = mb_param

\* a client operation whose modbus_send fails: write() or send() returns -1
\* or a short count, error_treat is given SOCKET_FAILURE and the operation
\* returns it without listening
SendFault(name, function, start_addr, nb, data_type) ==
    LET tid == IF mb_param.type_com = TCP THEN NextTid(t_id) ELSE t_id
        sent == SentFrame(mb_param.type_com,
                          build_query_basis(mb_param, tid, function, start_addr, nb))
    IN  /\ pc = "idle"
        /\ t_id' = tid
        /\ query' = sent
        /\ op' = [name |-> name, function |-> function, start_addr |-> start_addr,
                  nb |-> nb, data_type |-> data_type]
        /\ ret' = SOCKET_FAILURE
        /\ mb_param' = TreatParam(mb_param, << SOCKET_FAILURE >>)
        /\ s2c' = TreatEffect(mb_param, << SOCKET_FAILURE >>, s2c, 0)
        /\ seen' = s2c
        /\ pc' = "done"
        /\ UNCHANGED << sv_param, mb_mapping, c2s, response, data_dest, peer, requests, rcv,
                    configured >>

\* bytes that are no part of the reply follow it on the transport
PeerStale ==
    /\ pc = "wait"
    /\ s2c # << >>
    /\ Len(s2c) <= compute_response_length(mb_param.type_com, query, op.data_type)
    /\ s2c' = s2c \o StaleBytes
    /\ UNCHANGED << clientVars, serverVars, c2s, peer >>

\* receive_msg fails with n bytes of the reply read, at its first wait or
\* once it has read what arrived: select() returns -1
\* (SELECT_FAILURE), read() or recv() returns -1 (SOCKET_FAILURE) or, the
\* peer having closed the connection, 0 (CONNECTION_CLOSED); modbus_receive
\* and the operation return the code
ReceiveFault(code, n) ==
    /\ pc = "wait"
    /\ n \in {0, Len(s2c)}
    /\ n < compute_response_length(mb_param.type_com, query, op.data_type)
    /\ code = CONNECTION_CLOSED => n = Len(s2c)
    /\ LET treats == IF code = CONNECTION_CLOSED THEN << >> ELSE << code >>
       IN  /\ mb_param' = TreatParam(mb_param, treats)
           /\ s2c' = TreatEffect(mb_param, treats, s2c, n)
    /\ response' = Take(s2c, n)
    /\ ret' = code
    /\ seen' = s2c
    /\ pc' = "done"
    /\ UNCHANGED << sv_param, t_id, mb_mapping, c2s, op, query, data_dest, peer, requests, rcv,
                    configured >>

NextFault ==
    \/ \E a \in Addrs, n \in RegQtys : read_holding_registers(a, n, UINT16)
    \/ \E a \in Addrs, n \in BitQtys : read_coil_status(a, n)
    \/ \E a \in Addrs, n \in 1..MaxQty :
          SendFault("read_holding_registers", FC_READ_HOLDING_REGISTERS, a, n, UINT16)
    \/ SlaveManage
    \/ \E c \in ExceptionCodes : PeerException(c)
    \/ \E i \in 0..11, v \in PeerBytes : PeerReplace(i, v)
    \/ \E i \in 0..12 : PeerCorrupt(i)
    \/ PeerStale
    \/ \E c \in {SELECT_FAILURE, SOCKET_FAILURE, CONNECTION_CLOSED},
          n \in 0..12 : ReceiveFault(c, n)
    \/ \E j \in Junk : ReceiveReply(j)

SpecFault == InitFault /\ [][NextFault]_vars

----------------------------------------------------------------------------
(* Claims about the error policy *)

\* C22: when reception or validation of a reply fails with INVALID_DATA,
\* INVALID_CRC or INVALID_EXCEPTION_CODE, then under
\* FLUSH_OR_CONNECT_ON_ERROR nothing is left to read on the transport when
\* the operation returns, under NOP_ON_ERROR the bytes not read are still
\* there, in neither case is the transport re-opened, and the operation
\* returns the code modbus_receive gave.
C22_InvalidReplyFlushes ==
    (Awaited /\ ret \in {INVALID_DATA, INVALID_CRC, INVALID_EXCEPTION_CODE})
        => /\ IF mb_param.error_handling = FLUSH_OR_CONNECT_ON_ERROR
              THEN s2c = << >>
              ELSE s2c = Drop(seen, Len(response))
           /\ mb_param.fd = 0
           /\ \E j \in Junk :
                 ret = modbus_receive(mb_param.type_com, query, seen,
                                      op.data_type, j).ret

\* C22 witness: under the flushing policy an RTU reply followed by two more
\* bytes failed the CRC check and the transport was left empty
C22_Witness ==
    /\ Awaited
    /\ mb_param.type_com = RTU
    /\ mb_param.error_handling = FLUSH_OR_CONNECT_ON_ERROR
    /\ peer = "corrupted"
    /\ ret = INVALID_CRC
    /\ Len(seen) = Len(response) + Len(StaleBytes)
    /\ s2c = << >>

\* C23: whenever a send or receive fails with SELECT_FAILURE, SOCKET_FAILURE
\* or CONNECTION_CLOSED, then under FLUSH_OR_CONNECT_ON_ERROR the transport
\* is closed and opened again by the step in which the operation returns,
\* and under NOP_ON_ERROR that step leaves the descriptor and the bytes not
\* read untouched.
C23_IoFailureReconnects ==
    [][ (/\ pc # "done" /\ pc' = "done"
         /\ ret' \in {SELECT_FAILURE, SOCKET_FAILURE, CONNECTION_CLOSED})
        => IF mb_param.error_handling = FLUSH_OR_CONNECT_ON_ERROR
           THEN mb_param'.fd = mb_param.fd + 1
           ELSE mb_param' = mb_param /\ s2c' = Drop(s2c, Len(response')) ]_vars

----------------------------------------------------------------------------
(* Several TCP sessions of one process, each on its own connection, send
   requests in any order: build_query_basis_tcp keeps the transaction
   counter in a function-static variable *)

MaxSessions == 2
MaxRequests == 4

\* a new process, or one that has sent UINT16_MAX - 2 requests before
InitTid ==
    /\ mb_param = [type_com |-> TCP, slave |-> 1, debug |-> 0, fd |-> 0,
                   error_handling |-> FLUSH_OR_CONNECT_ON_ERROR]
    /\ sv_param = [type_com |-> TCP, slave |-> 1, debug |-> 0, fd |-> 0,
                   error_handling |-> FLUSH_OR_CONNECT_ON_ERROR]
    /\ t_id \in {0, UINT16_MAX - 2}
    /\ mb_mapping \in InitMaps
    /\ c2s = << >>
    /\ s2c = << >>
    /\ pc = "idle"
    /\ op = NoOp
    /\ query = << >>
    /\ response = << >>
    /\ ret = 0
    /\ data_dest = << >>
    /\ seen = << >>
    /\ peer = "none"
    /\ requests = << >>
    /\ rcv = NoRcv
    /\ configured = mb_param

\* session s, which talks to unit s, builds and sends the query of a read
\* of one holding register; nth counts the requests of the process
SessionRequest(s, start_addr) ==
    LET param == [mb_param EXCEPT !.slave = s]
        tid == NextTid(t_id)
        sent == SentFrame(TCP, build_query_basis(param, tid,
                                   FC_READ_HOLDING_REGISTERS, start_addr, 1))
        before == IF requests = << >> THEN t_id
                  ELSE requests[Len(requests)].nth
    IN  /\ Len(requests) < MaxRequests
        /\ t_id' = tid
        /\ mb_param' = param
        /\ query' = sent
        /\ requests' = Append(requests, [session |-> s, nth |-> before + 1,
                                         query |-> sent])
        /\ UNCHANGED << sv_param, mb_mapping, c2s, s2c, pc, op, response, ret,
                        data_dest, seen, peer, rcv, configured >>

NextSessions ==
    \E s \in 1..MaxSessions, a \in Addrs : SessionRequest(s, a)

SpecTid == InitTid /\ [][NextSessions]_vars

----------------------------------------------------------------------------
(* Claims about the transaction id *)

\* the transaction id in the MBAP header of request k
RequestTid(k) == At(requests[k].query, 0) * 256 + At(requests[k].query, 1)

\* C24: on a single TCP session the transaction id is incremented before
\* each request is built and wraps as a 16-bit counter: successive requests
\* carry k, k+1, ..., 0xFFFF, 0, 1, ..., none skipped or repeated, and the
\* first request of a new process carries 0x0001.
C24_TidCountsRequests ==
    (\A k \in 1..Len(requests) : requests[k].session = requests[1].session)
        => /\ \A k \in 1..Len(requests) :
                 RequestTid(k) = requests[k].nth % (UINT16_MAX + 1)
           /\ \A k \in 1..(Len(requests) - 1) :
                 RequestTid(k + 1) = (RequestTid(k) + 1) % (UINT16_MAX + 1)

\* C24 witness: one session sent the ids 0xFFFE, 0xFFFF, 0, 1 in a row
C24_Witness ==
    /\ Len(requests) = 4
    /\ \A k \in 1..4 : requests[k].session = 1
    /\ RequestTid(1) = 65534 /\ RequestTid(2) = 65535
    /\ RequestTid(3) = 0 /\ RequestTid(4) = 1

\* C25: when several sessions of one process send requests in any order,
\* two successive requests of the same session carry consecutive
\* transaction ids (mod 2^16), whatever the other sessions sent in between.
C25_TidPerSession ==
    \A i, j \in 1..Len(requests) :
        (/\ i < j
         /\ requests[i].session = requests[j].session
         /\ \A k \in (i + 1)..(j - 1) : requests[k].session # requests[i].session)
            => RequestTid(j) = (RequestTid(i) + 1) % (UINT16_MAX + 1)

----------------------------------------------------------------------------
(* Claims about the expected reply length and the decoding of registers *)

\* the slave has answered the pending request and the reply waits, as the
\* slave wrote it, on the transport
ReplyWaits ==
    /\ pc = "wait" /\ peer = "none"
    /\ query # << >> /\ c2s = << >> /\ s2c # << >>

\* C26: for every request with function code in {0x01, 0x02, 0x03, 0x04,
\* 0x0F, 0x10}, every quantity within bounds and every data-type tag t,
\* compute_response_length (request, t) equals the length of the frame
\* modbus_slave_manage and modbus_send put on the wire for that request
\* when the map is large enough, over RTU and over TCP.
C26_ComputedLengthIsWireLength ==
    (/\ ReplyWaits
     /\ ReqFn \in {1, 2, 3, 4, 15, 16}
     /\ ~SrvOutOfRange(query, mb_mapping))
        => Len(s2c) = compute_response_length(mb_param.type_com, query,
                                              op.data_type)

\* the content of a uint32_t cell, as its two 16-bit halves: the value v of
\* `bits` bits sign-extended, and zero-extended
SignExtended(bits, v) ==
    IF v >= Pow2(bits - 1)
    THEN [hi |-> 65535, lo |-> (65536 - Pow2(bits)) + v]
    ELSE [hi |-> 0, lo |-> v]

ZeroExtended(v) == [hi |-> 0, lo |-> v]

\* the cell data_dest[i] (from 0) after read_registers, and what the tag of
\* the operation makes of the bytes received for it
StoredCell(i) ==
    IF op.data_type \in {4, 5} THEN data_dest[i + 1]
    ELSE ZeroExtended(data_dest[i + 1])

TaggedCell(i) ==
    LET offset == TAB_HEADER_LENGTH(mb_param.type_com)
        b(k) == At(response, offset + 2 + k)
        t == op.data_type
    IN  IF t = 0 THEN SignExtended(8, b(i))
        ELSE IF t = 1 THEN ZeroExtended(b(i))
        ELSE IF t = 2 THEN SignExtended(16, b(2 * i) * 256 + b((2 * i) + 1))
        ELSE IF t = 3 THEN ZeroExtended(b(2 * i) * 256 + b((2 * i) + 1))
        ELSE [hi |-> b(4 * i) * 256 + b((4 * i) + 1),
              lo |-> b((4 * i) + 2) * 256 + b((4 * i) + 3)]

\* C27: read_registers decodes each value according to the data-type tag:
\* with a signed tag (I8, I16, I32) the cell holds the sign-extended signed
\* interpretation of the received bytes, with an unsigned tag (U8, U16,
\* U32) the zero-extended one; the signed decode is not overwritten by the
\* unsigned decode of the following case.
C27_DecodedByTag ==
    (/\ FullValidReply
     /\ op.name \in {"read_holding_registers", "read_input_registers"}
     /\ op.data_type \in 0..5
     /\ RespFn = ReqFn
     /\ ret > 0)
        => \A i \in 0..(ret - 1) : StoredCell(i) = TaggedCell(i)

\* C28: when the slave does not reply within select_time to a request whose
\* expected reply is longer than an exception frame, the client operation
\* does not return SELECT_TIMEOUT from that first wait: it listens again,
\* with the exception-response length, before returning, so that an
\* exception frame the slave sends then is returned as its exception code.
\* (pc = "wait" is the wait of the first receive_msg call of the operation.)
C28_TimeoutListensAgain ==
    [][ (/\ pc = "wait" /\ s2c = << >>
         /\ compute_response_length(mb_param.type_com, query, op.data_type)
               > TAB_HEADER_LENGTH(mb_param.type_com) + 2
                   + TAB_CHECKSUM_LENGTH(mb_param.type_com)
         /\ pc' = "done")
        => ret' # SELECT_TIMEOUT ]_vars

----------------------------------------------------------------------------
(* compute_response_length alone: it is given the query of any function
   code, quantity and data-type tag, over either transport *)

\* the data-type tags are 0..9: I8, U8, I16, U16, I32, U32, I64, U64, F32,
\* F64; the query is the buffer modbus_send has completed
InitLength ==
    /\ \E t \in {RTU, TCP} :
          /\ mb_param = [type_com |-> t, slave |-> 1, debug |-> 0, fd |-> 0,
                         error_handling |-> FLUSH_OR_CONNECT_ON_ERROR]
          /\ sv_param = [type_com |-> t, slave |-> 1, debug |-> 0, fd |-> 0,
                         error_handling |-> FLUSH_OR_CONNECT_ON_ERROR]
    /\ \E f \in {1, 2, 3, 4, 5, 6, 7, 8, 15, 16, 17},
          n \in (0..MaxQty) \cup {7, 8, 9, 125, 2000}, d \in 0..9 :
          /\ op = [name |-> "compute_response_length", function |-> f,
                   start_addr |-> 0, nb |-> n, data_type |-> d]
          /\ query = SentFrame(mb_param.type_com,
                               build_query_basis(mb_param, 1, f, 0, n))
    /\ t_id = 1
    /\ mb_mapping = NoMap
    /\ c2s = << >>
    /\ s2c = << >>
    /\ pc = "idle"
    /\ response = << >>
    /\ ret = 0
    /\ data_dest = << >>
    /\ seen = << >>
    /\ peer = "none"
    /\ requests = << >>
    /\ rcv = NoRcv
    /\ configured = mb_param

\* response_length_computed = compute_response_length (query, data_type)
ComputeLength ==
    /\ pc = "idle"
    /\ ret' = compute_response_length(mb_param.type_com, query, op.data_type)
    /\ pc' = "done"
    /\ UNCHANGED << mb_param, sv_param, t_id, mb_mapping, c2s, s2c, op, query,
                    response, data_dest, seen, peer, requests, rcv,
                    configured >>

NextLength == ComputeLength

SpecLength == InitLength /\ [][NextLength]_vars

----------------------------------------------------------------------------
(* Claims about compute_response_length *)

\* header and checksum lengths: 1 and 2 for RTU, 7 and 0 for TCP
HeaderOf(type_com) == IF type_com = RTU THEN 1 ELSE 7
ChecksumOf(type_com) == IF type_com = RTU THEN 2 ELSE 0

\* C29: for requests with a function code other than 0x03/0x04,
\* compute_response_length returns header + 2 + ceil(quantity/8) + checksum
\* for 0x01 and 0x02, header + 3 + checksum for 0x07, the undefined-length
\* value for 0x11 and header + 5 + checksum for every other function code,
\* header and checksum being 1 and 2 for RTU, 7 and 0 for TCP.
C29_LengthOfOtherFunctions ==
    (pc = "done" /\ op.name = "compute_response_length"
       /\ op.function \notin {3, 4})
        => LET h == HeaderOf(mb_param.type_com)
               c == ChecksumOf(mb_param.type_com)
           IN  ret = IF op.function \in {1, 2} THEN h + 2 + Ceil8(op.nb) + c
                     ELSE IF op.function = 7 THEN h + 3 + c
                     ELSE IF op.function = 17 THEN MSG_LENGTH_UNDEFINED
                     ELSE h + 5 + c

\* C29 witness: the reply to an RTU read of 9 coils is expected 7 bytes long
C29_Witness ==
    /\ pc = "done" /\ op.name = "compute_response_length"
    /\ mb_param.type_com = RTU
    /\ op.function = FC_READ_COIL_STATUS /\ op.nb = 9
    /\ Take(query, 6) = << 1, 1, 0, 0, 0, 9 >>
    /\ ret = 7

\* bytes_per_value of every data-type tag: 1 for I8/U8, 2 for I16/U16, 4 for
\* I32/U32/F32 and 8 for I64/U64/F64
BytesPerTag(t) ==
    IF t \in {0, 1} THEN 1
    ELSE IF t \in {2, 3} THEN 2
    ELSE IF t \in {4, 5, 8} THEN 4
    ELSE 8

\* C30: for requests with function code 0x03 or 0x04, quantity Q and
\* data-type tag t, compute_response_length returns
\* header + 2 + bytes_per_value(t) * Q + checksum.
C30_LengthOfRegisterReads ==
    (pc = "done" /\ op.name = "compute_response_length"
       /\ op.function \in {3, 4})
        => ret = HeaderOf(mb_param.type_com) + 2
                   + (BytesPerTag(op.data_type) * op.nb)
                   + ChecksumOf(mb_param.type_com)

----------------------------------------------------------------------------
(* receive_msg and rcv_msg step by step: one call, in client mode (the reply
   to `query` is awaited) or in server mode (the master's frame `query` is
   awaited), the frame arriving in any split into chunks; `seen` is the part
   of the frame that has arrived *)

\* the first MaxSplit bytes of a frame arrive in any split into chunks, what
\* follows them in a longer frame arrives in one chunk
MaxSplit == 13

\* the session that receives
RecvServer == op.name = "modbus_slave_receive"
RecvParam == IF RecvServer THEN sv_param ELSE mb_param
RecvLine == IF RecvServer THEN c2s ELSE s2c

\* the frame the peer sends: the master's query, or the slave's reply to
\* the client's query
PeerFrame ==
    IF RecvServer THEN query
    ELSE SentFrame(sv_param.type_com,
                   modbus_slave_manage(sv_param, query, Len(query),
                                       mb_mapping, 0).resp)

\* the master's frames: function, address and quantity, then for the
\* write-multiple functions a byte count and as many bytes (247 is the last
\* count that fits the maximal ADU, 248 the first one that does not), for
\* report-slave-id one count byte and as many bytes, nothing but the
\* function for read-exception-status and diagnostics
MasterFrames(t) ==
    LET basis(fc, qty) ==
            build_query_basis([type_com |-> t, slave |-> 1], 1, fc, 0, qty)
        head(code) == Take(basis(code, 0), TAB_HEADER_LENGTH(t) + 1)
        zeros(len) == [k \in 1..len |-> 0]
    IN  { SentFrame(t, basis(f, 1)) :
              f \in {FC_READ_COIL_STATUS, FC_READ_HOLDING_REGISTERS,
                     FC_FORCE_SINGLE_COIL, FC_PRESET_SINGLE_REGISTER} }
        \cup { SentFrame(t, basis(f, 1) \o << n >> \o zeros(n)) :
                  f \in {FC_FORCE_MULTIPLE_COILS, FC_PRESET_MULTIPLE_REGISTERS},
                  n \in (1..MaxQty) \cup {247, 248} }
        \cup { SentFrame(t, head(FC_REPORT_SLAVE_ID) \o << n >> \o zeros(n)) :
                  n \in 0..MaxQty }
        \cup { SentFrame(t, head(f)) : f \in {FC_READ_EXCEPTION_STATUS, 8} }

InitRecv ==
    /\ \E t \in {RTU, TCP} :
          /\ mb_param = [type_com |-> t, slave |-> 1, debug |-> 0, fd |-> 0,
                         error_handling |-> FLUSH_OR_CONNECT_ON_ERROR]
          /\ sv_param = [type_com |-> t, slave |-> 1, debug |-> 0, fd |-> 0,
                         error_handling |-> FLUSH_OR_CONNECT_ON_ERROR]
          /\ \/ /\ op = [NoOp EXCEPT !.name = "modbus_slave_receive"]
                /\ query \in MasterFrames(t)
             \/ \E f \in {FC_READ_COIL_STATUS, FC_READ_HOLDING_REGISTERS},
                   n \in 0..MaxQty :
                   /\ op = [name |-> "modbus_receive", function |-> f,
                            start_addr |-> 0, nb |-> n, data_type |-> UINT16]
                   /\ query = SentFrame(t, build_query_basis(mb_param, 1, f, 0, n))
             \/ /\ op = [NoOp EXCEPT !.name = "rcv_msg"]
                /\ query = SentFrame(t, build_query_basis(mb_param, 1,
                                         FC_READ_HOLDING_REGISTERS, 0, 1))
    /\ t_id = 1
    /\ mb_mapping = CHOOSE m \in InitMaps : m.tab_coil_status[1] = 1
    /\ c2s = << >>
    /\ s2c = << >>
    /\ pc = "idle"
    /\ response = << >>
    /\ ret = 0
    /\ data_dest = << >>
    /\ seen = << >>
    /\ peer = "none"
    /\ requests = << >>
    /\ rcv = NoRcv
    /\ configured = mb_param

\* what a step of the call does to its session and to its line
RecvUpdate(locals, line, treats) ==
    /\ rcv' = locals
    /\ c2s' = IF RecvServer THEN TreatEffect(sv_param, treats, line, 0) ELSE c2s
    /\ s2c' = IF RecvServer THEN s2c ELSE TreatEffect(mb_param, treats, line, 0)
    /\ sv_param' = IF RecvServer THEN TreatParam(sv_param, treats) ELSE sv_param
    /\ mb_param' = IF RecvServer THEN mb_param ELSE TreatParam(mb_param, treats)
    /\ pc' = IF locals.at = "returned" THEN "done" ELSE pc
    /\ ret' = IF locals.at = "returned" THEN locals.ret ELSE ret
    /\ response' = IF locals.at = "returned" THEN locals.msg ELSE response

\* the next bytes of the peer's frame arrive: its first n bytes have
\* arrived, or the whole of it
Arrive(n) ==
    /\ pc \in {"idle", "receive"}
    /\ LET frame == PeerFrame
           upto == IF n <= MaxSplit /\ n < Len(frame) THEN n ELSE Len(frame)
           chunk == SubSeq(frame, Len(seen) + 1, upto)
       IN  /\ Len(seen) < upto
           /\ seen' = Take(frame, upto)
           /\ c2s' = IF RecvServer THEN c2s \o chunk ELSE c2s
           /\ s2c' = IF RecvServer THEN s2c ELSE s2c \o chunk
    /\ UNCHANGED << mb_param, sv_param, t_id, mb_mapping, pc, op, query,
                    response, ret, data_dest, peer, requests, rcv, configured >>

\* receive_msg is entered: the length to await, the state and the first wait
StartReceive ==
    /\ pc = "idle"
    /\ op.name \in {"modbus_slave_receive", "modbus_receive"}
    /\ pc' = "receive"
    /\ LET type_com == RecvParam.type_com
           computed == IF RecvServer THEN MSG_LENGTH_UNDEFINED
                       ELSE compute_response_length(type_com, query, op.data_type)
           first == IF computed = MSG_LENGTH_UNDEFINED
                    THEN TAB_HEADER_LENGTH(type_com) + 1 ELSE computed
       IN  rcv' = [at |-> "wait",
                   state |-> IF computed = MSG_LENGTH_UNDEFINED
                             THEN "FUNCTION" ELSE "COMPLETE",
                   msg_length_computed |-> first, length_to_read |-> first,
                   msg |-> << >>, ret |-> 0, crc16_length |-> -1]
    /\ UNCHANGED << mb_param, sv_param, t_id, mb_mapping, c2s, s2c, op, query,
                    response, ret, data_dest, seen, peer, requests, configured >>

\* select is interrupted by a signal (EINTR): WAIT_DATA arms the wait again
WaitInterrupted ==
    /\ pc = "receive" /\ rcv.at = "wait"
    /\ rcv' = [rcv EXCEPT !.at = "eintr"]
    /\ UNCHANGED << mb_param, sv_param, t_id, mb_mapping, c2s, s2c, pc, op,
                    query, response, ret, data_dest, seen, peer, requests,
                    configured >>

\* an interrupted wait taken for a failure of select
WaitRestarted_as_failure ==
    /\ pc = "receive" /\ rcv.at = "eintr"
    /\ RecvUpdate([rcv EXCEPT !.at = "returned", !.ret = SELECT_FAILURE],
                  RecvLine, << SELECT_FAILURE >>)
    /\ UNCHANGED << t_id, mb_mapping, op, query, data_dest, seen, peer,
                    requests, configured >>

WaitRestarted ==
    /\ pc = "receive" /\ rcv.at = "eintr"
    /\ rcv' = [rcv EXCEPT !.at = "wait"]
    /\ UNCHANGED << mb_param, sv_param, t_id, mb_mapping, c2s, s2c, pc, op,
                    query, response, ret, data_dest, seen, peer, requests,
                    configured >>

\* select fails for another reason: SELECT_FAILURE after error_treat
SelectFails ==
    /\ pc = "receive" /\ rcv.at = "wait"
    /\ RecvUpdate([rcv EXCEPT !.at = "returned", !.ret = SELECT_FAILURE],
                  RecvLine, << SELECT_FAILURE >>)
    /\ UNCHANGED << t_id, mb_mapping, op, query, data_dest, seen, peer,
                    requests, configured >>

\* the wait expires with nothing to read
WaitExpires ==
    /\ pc = "receive" /\ rcv.at = "wait"
    /\ RecvLine = << >>
    /\ RecvUpdate([rcv EXCEPT !.at = "returned",
                              !.ret = WaitTimeout(RecvParam.type_com, Len(rcv.msg))],
                  RecvLine, << >>)
    /\ UNCHANGED << t_id, mb_mapping, op, query, data_dest, seen, peer,
                    requests, configured >>

\* the peer has closed: the line is readable and read returns 0
ReadClosed ==
    /\ pc = "receive" /\ rcv.at = "wait"
    /\ RecvLine = << >>
    /\ RecvUpdate([rcv EXCEPT !.at = "returned", !.ret = CONNECTION_CLOSED],
                  RecvLine, << >>)
    /\ UNCHANGED << t_id, mb_mapping, op, query, data_dest, seen, peer,
                    requests, configured >>

\* read fails: SOCKET_FAILURE after error_treat
ReadFails ==
    /\ pc = "receive" /\ rcv.at = "wait"
    /\ RecvUpdate([rcv EXCEPT !.at = "returned", !.ret = SOCKET_FAILURE],
                  RecvLine, << SOCKET_FAILURE >>)
    /\ UNCHANGED << t_id, mb_mapping, op, query, data_dest, seen, peer,
                    requests, configured >>

\* the locals after read stored the bytes at msg + msg_length: the rest of
\* the loop body; when nothing is left to read the loop ends ("check")
ReceiveStep(type_com, locals, bytes) ==
    LET msg == locals.msg \o bytes
        computed == locals.msg_length_computed
        extension ==
            IF locals.state = "FUNCTION"
              THEN compute_query_length_header(At(msg, TAB_HEADER_LENGTH(type_com)))
            ELSE IF locals.state = "BYTE"
              THEN compute_query_length_data(type_com, msg)
            ELSE 0
    IN  IF Len(msg) < computed
          THEN [locals EXCEPT !.msg = msg, !.length_to_read = computed - Len(msg)]
        ELSE IF locals.state = "BYTE"
                /\ computed + extension > TAB_MAX_ADU_LENGTH(type_com)
          THEN [locals EXCEPT !.msg = msg, !.length_to_read = extension,
                              !.msg_length_computed = computed + extension,
                              !.at = "returned", !.ret = INVALID_DATA]
        ELSE IF extension > 0
          THEN [locals EXCEPT !.msg = msg, !.length_to_read = extension,
                              !.msg_length_computed = computed + extension,
                              !.state = IF locals.state = "FUNCTION" THEN "BYTE"
                                        ELSE "COMPLETE"]
        ELSE [locals EXCEPT !.msg = msg, !.length_to_read = 0,
                            !.state = IF locals.state = "FUNCTION" THEN "BYTE"
                                      ELSE "COMPLETE",
                            !.at = "check"]

\* one turn of the loop: the wait ends with data and read returns what is
\* there, length_to_read bytes at most
RecvBytes ==
    /\ pc = "receive" /\ rcv.at = "wait"
    /\ RecvLine # << >>
    /\ LET n == IF Len(RecvLine) < rcv.length_to_read THEN Len(RecvLine)
                ELSE rcv.length_to_read
           next == ReceiveStep(RecvParam.type_com, rcv, Take(RecvLine, n))
       IN  RecvUpdate(next, Drop(RecvLine, n),
                      IF next.at = "returned" THEN << INVALID_DATA >>
                      ELSE << >>)
    /\ UNCHANGED << t_id, mb_mapping, op, query, data_dest, seen, peer,
                    requests, configured >>

\* after the loop: check_crc16 on the msg_length bytes for RTU, msg_length
\* itself for TCP
ReceiveCheck ==
    /\ pc = "receive" /\ rcv.at = "check"
    /\ LET type_com == RecvParam.type_com
           final == ReceiveEnd(type_com, rcv.msg, << >>)
       IN  RecvUpdate([rcv EXCEPT !.at = "returned", !.ret = final.ret,
                           !.crc16_length =
                               IF type_com = RTU THEN (Len(rcv.msg) - 2) % 65536
                               ELSE -1],
                      RecvLine, final.treats)
    /\ UNCHANGED << t_id, mb_mapping, op, query, data_dest, seen, peer,
                    requests, configured >>

\* rcv_msg (msg, select_time, wait_time): one wait, then one read of up to
\* 1024 bytes; WAIT_DATA reads the local msg_length, which has no value yet,
\* and check_crc16 on a frame of one byte reads outside the frame, so both
\* results are any of those the build can give
RcvMsg(io, any) ==
    /\ pc = "idle"
    /\ op.name = "rcv_msg"
    /\ LET type_com == RecvParam.type_com
           n == IF Len(RecvLine) < 1024 THEN Len(RecvLine) ELSE 1024
           msg == Take(RecvLine, n)
           checked == IF type_com = TCP THEN n
                      ELSE IF n < 2 THEN (IF any THEN n ELSE INVALID_CRC)
                      ELSE check_crc16(msg, n)
           locals == [NoRcv EXCEPT !.at = "returned"]
       IN  CASE io = "expired" ->
                  /\ RecvLine = << >>
                  /\ RecvUpdate([locals EXCEPT !.ret = IF any THEN MB_EXCEPTION
                                                       ELSE SELECT_TIMEOUT],
                                RecvLine, << >>)
             [] io = "closed" ->
                  /\ RecvLine = << >>
                  /\ RecvUpdate([locals EXCEPT !.ret = CONNECTION_CLOSED],
                                RecvLine, << >>)
             [] io = "failure" ->
                  RecvUpdate([locals EXCEPT !.ret = SOCKET_FAILURE],
                             RecvLine, << SOCKET_FAILURE >>)
             [] OTHER ->
                  /\ RecvLine # << >>
                  /\ RecvUpdate([locals EXCEPT !.ret = checked, !.msg = msg,
                                    !.crc16_length =
                                        IF type_com = RTU THEN (n - 2) % 65536
                                        ELSE -1],
                                Drop(RecvLine, n),
                                IF checked = INVALID_CRC THEN << INVALID_CRC >>
                                ELSE << >>)
    /\ UNCHANGED << t_id, mb_mapping, op, query, data_dest, seen, peer,
                    requests, configured >>

NextRecv ==
    \/ \E n \in 1..(MaxSplit + 1) : Arrive(n)
    \/ StartReceive
    \/ WaitInterrupted
    \/ WaitRestarted
    \/ SelectFails
    \/ WaitExpires
    \/ ReadClosed
    \/ ReadFails
    \/ RecvBytes
    \/ ReceiveCheck
    \/ \E io \in {"data", "expired", "closed", "failure"}, any \in BOOLEAN :
          RcvMsg(io, any)

SpecRecv == InitRecv /\ [][NextRecv]_vars

\* every wait ends: select has a timeout and read does not block once select
\* has reported data, and a wait that a signal interrupts is armed again,
\* signals not recurring forever
SpecRecvFair ==
    /\ SpecRecv
    /\ WF_vars(WaitRestarted)
    /\ SF_vars(RecvBytes)
    /\ SF_vars(WaitExpires)

----------------------------------------------------------------------------
(* Claims on the receive state machine *)

\* the function code of the master's frame and the length the frame has by
\* its own fields: header, function, header extension, byte count, checksum
RecvFn == At(query, TAB_HEADER_LENGTH(sv_param.type_com))
RecvFrameLength ==
    LET h == TAB_HEADER_LENGTH(sv_param.type_com)
    IN  h + 1
        + (IF RecvFn \in {15, 16} THEN 5 ELSE 4)
        + (IF RecvFn \in {15, 16} THEN At(query, h + 5) ELSE 0)
        + TAB_CHECKSUM_LENGTH(sv_param.type_com)

\* a well-formed query of the functions 0x01..0x06, 0x0F, 0x10 that fits the
\* maximal ADU is awaited by modbus_slave_receive
RecvWellFormed ==
    /\ RecvServer
    /\ RecvFn \in (1..6) \cup {15, 16}
    /\ RecvFrameLength = Len(query)
    /\ RecvFrameLength <= (IF sv_param.type_com = RTU THEN 256 ELSE 260)

\* the call of receive_msg has returned and no wait expired, no select or
\* read failed and the peer did not close
RecvUndisturbed ==
    /\ rcv.at = "returned"
    /\ rcv.ret \notin {SELECT_TIMEOUT, MB_EXCEPTION, SELECT_FAILURE,
                        SOCKET_FAILURE, CONNECTION_CLOSED}

\* C31: for a well-formed query with function code in {0x01..0x06, 0x0F,
\* 0x10} that arrives in any split into chunks without a wait expiring,
\* modbus_slave_receive returns header + 1 + header extension + byte count
\* + checksum (the byte count read at offset header + 5 for write-multiple,
\* 0 otherwise); a read never asks for more bytes than remain in the frame;
\* and the state only moves from FUNCTION to BYTE and from BYTE to COMPLETE,
\* where the call ends.
C31_TwoPhaseLength ==
    /\ [](RecvWellFormed =>
            /\ RecvUndisturbed =>
                  /\ rcv.ret = RecvFrameLength
                  /\ rcv.msg = query
                  /\ rcv.state = "COMPLETE"
            /\ rcv.at = "wait" =>
                  Len(rcv.msg) + rcv.length_to_read <= RecvFrameLength)
    /\ [][(RecvWellFormed /\ rcv.at = "wait" /\ rcv'.state # rcv.state) =>
             << rcv.state, rcv'.state >> \in {<< "FUNCTION", "BYTE" >>,
                                              << "BYTE", "COMPLETE" >>}]_vars

\* a write-multiple query and a read query received whole, each after the
\* three states
C31_Witness ==
    /\ RecvWellFormed /\ RecvUndisturbed
    /\ RecvFn = FC_PRESET_MULTIPLE_REGISTERS
    /\ sv_param.type_com = RTU
    /\ rcv.ret = Len(query) /\ Len(query) = 11
    /\ rcv.state = "COMPLETE"

\* C32: for a query whose function code has header extension 0 (0x07 read
\* exception status), server query receive still adds the checksum length
\* before it ends: the frame is header + 1 + checksum bytes long (4 for RTU)
\* and the CRC is verified over the frame that was sent.
C32_NoExtensionStillChecksummed ==
    ( /\ RecvServer
      /\ compute_query_length_header(RecvFn) = 0
      /\ RecvUndisturbed )
    => /\ rcv.ret = TAB_HEADER_LENGTH(sv_param.type_com) + 1
                     + TAB_CHECKSUM_LENGTH(sv_param.type_com)
       /\ rcv.msg = query

\* the maximal ADU of the slave's transport
MaxAdu == IF sv_param.type_com = RTU THEN 256 ELSE 260

\* C33: during server query receive, whenever an extension would make the
\* expected length exceed the maximal ADU (256 RTU, 260 TCP), receive_msg
\* returns INVALID_DATA without reading further: a write-multiple query
\* whose byte count announces more is refused once its byte count is read,
\* no frame longer than the maximal ADU is delivered and no byte is stored
\* past index max-ADU - 1 of the receive buffer.
C33_NeverOverMaxAdu ==
    RecvServer =>
        /\ Len(rcv.msg) <= MaxAdu
        /\ (rcv.at = "returned" /\ rcv.ret >= 0) => rcv.ret <= MaxAdu
        /\ rcv.msg_length_computed > MaxAdu =>
              /\ rcv.at = "returned" /\ rcv.ret = INVALID_DATA
              /\ Len(rcv.msg) = TAB_HEADER_LENGTH(sv_param.type_com) + 1
                                 + compute_query_length_header(RecvFn)
        /\ ( /\ RecvFn \in {15, 16} /\ RecvFrameLength > MaxAdu
             /\ RecvUndisturbed ) => rcv.ret = INVALID_DATA

\* a write-multiple query announcing 248 bytes is refused after its byte count
C33_Witness ==
    /\ RecvServer /\ rcv.at = "returned" /\ rcv.ret = INVALID_DATA
    /\ RecvFn = FC_FORCE_MULTIPLE_COILS
    /\ rcv.msg_length_computed = MaxAdu + 1
    /\ Len(rcv.msg) = TAB_HEADER_LENGTH(sv_param.type_com) + 6

\* C34: in client reply receive, when the first wait (select_time) expires
\* with nothing received, receive_msg returns MB_EXCEPTION if the expected
\* length is the length of an exception response (5 for RTU, 9 for TCP) and
\* SELECT_TIMEOUT otherwise.
C34_StartupTimeoutResult ==
    ( /\ op.name = "modbus_receive"
      /\ rcv.at = "returned"
      /\ rcv.ret \in {MB_EXCEPTION, SELECT_TIMEOUT}
      /\ rcv.msg = << >> )
    => rcv.ret = IF rcv.msg_length_computed
                      = (IF mb_param.type_com = RTU THEN 5 ELSE 9)
                 THEN MB_EXCEPTION
                 ELSE SELECT_TIMEOUT

\* C39: CRC verification is only applied to a received RTU frame of at least
\* 2 bytes: whatever length receive_msg and rcv_msg pass to check_crc16
\* (a single-byte read in rcv_msg included), crc16 is called with the frame
\* length minus 2 and never with a negative length wrapped to 16 bits.
C39_CrcOnlyOnTwoBytesOrMore ==
    rcv.crc16_length # -1 =>
        /\ Len(rcv.msg) >= 2
        /\ rcv.crc16_length = Len(rcv.msg) - 2

\* C40: every call of receive_msg eventually leaves its loop for the final
\* check and the return, in client and in server mode, provided every wait ends with data or a timeout and signal
\* interruptions do not recur forever (an interrupted wait is armed again,
\* it is no error): each turn of the loop stores at least one byte, the
\* bytes received never exceed the expected length, the expected length is
\* bounded by the maximal ADU where the loop goes on, and the call ends with
\* a frame, a timeout, CONNECTION_CLOSED, SOCKET_FAILURE or INVALID_DATA
\* (or SELECT_FAILURE when select itself fails).
C40_ReceiveReturns ==
    /\ (pc = "receive") ~> (rcv.at \in {"check", "returned"})
    /\ [](pc = "receive" =>
            /\ Len(rcv.msg) <= rcv.msg_length_computed
            /\ rcv.at # "returned" =>
                  rcv.msg_length_computed <= TAB_MAX_ADU_LENGTH(RecvParam.type_com))
    /\ [](rcv.at = "returned" /\ op.name # "rcv_msg" =>
            \/ rcv.ret = Len(rcv.msg)
            \/ rcv.ret \in {SELECT_TIMEOUT, MB_EXCEPTION, CONNECTION_CLOSED,
                             SOCKET_FAILURE, INVALID_DATA, INVALID_CRC,
                             SELECT_FAILURE})
    /\ [][(rcv.at = "wait" /\ rcv'.at = "wait" /\ rcv' # rcv) =>
             Len(rcv'.msg) > Len(rcv.msg)]_vars
    /\ [][(rcv.at = "eintr" /\ rcv' # rcv) => rcv' = [rcv EXCEPT !.at = "wait"]]_vars

\* a call that an interrupted wait did not end: the frame is returned after
\* three turns of the loop
C40_Witness ==
    /\ op.name = "modbus_slave_receive"
    /\ rcv.at = "returned" /\ rcv.ret = Len(query)
    /\ rcv.state = "COMPLETE"
    /\ Len(query) > MaxSplit

----------------------------------------------------------------------------
(* A session used for several operations in a row, configured through the
   mutators between them, against the slave: a reply may come after the
   client's wait has expired *)

\* the operations the caller runs on the session
MaxOperations == 2

InitSession ==
    /\ \E t \in {RTU, TCP} :
          /\ mb_param = [type_com |-> t, slave |-> 1, debug |-> 0, fd |-> 0,
                         error_handling |-> FLUSH_OR_CONNECT_ON_ERROR]
          /\ sv_param = [type_com |-> t, slave |-> 1, debug |-> 0, fd |-> 0,
                         error_handling |-> FLUSH_OR_CONNECT_ON_ERROR]
    /\ t_id = 0
    /\ mb_mapping = CHOOSE m \in InitMaps : m.tab_coil_status[1] = 1
    /\ c2s = << >>
    /\ s2c = << >>
    /\ pc = "idle"
    /\ op = NoOp
    /\ query = << >>
    /\ response = << >>
    /\ ret = 0
    /\ data_dest = << >>
    /\ seen = << >>
    /\ peer = "none"
    /\ requests = << >>
    /\ rcv = NoRcv
    /\ configured = mb_param

\* modbus_set_slave (slave)
modbus_set_slave(slave) ==
    /\ pc = "idle"
    /\ mb_param' = [mb_param EXCEPT !.slave = slave]
    /\ configured' = [configured EXCEPT !.slave = slave]
    /\ UNCHANGED << sv_param, t_id, mb_mapping, c2s, s2c, pc, op, query,
                    response, ret, data_dest, seen, peer, requests, rcv >>

\* modbus_set_debug (boolean)
modbus_set_debug(boolean) ==
    /\ pc = "idle"
    /\ mb_param' = [mb_param EXCEPT !.debug = boolean]
    /\ configured' = [configured EXCEPT !.debug = boolean]
    /\ UNCHANGED << sv_param, t_id, mb_mapping, c2s, s2c, pc, op, query,
                    response, ret, data_dest, seen, peer, requests, rcv >>

\* modbus_set_error_handling (error_handling): another value than the two
\* policies is refused
modbus_set_error_handling(error_handling) ==
    /\ pc = "idle"
    /\ LET valid == error_handling \in {FLUSH_OR_CONNECT_ON_ERROR, NOP_ON_ERROR}
       IN  /\ mb_param' = IF valid
                          THEN [mb_param EXCEPT !.error_handling = error_handling]
                          ELSE mb_param
           /\ configured' = IF valid
                            THEN [configured EXCEPT !.error_handling = error_handling]
                            ELSE configured
    /\ UNCHANGED << sv_param, t_id, mb_mapping, c2s, s2c, pc, op, query,
                    response, ret, data_dest, seen, peer, requests, rcv >>

\* the operation has returned: the caller goes on with the session
NextOperation ==
    /\ pc = "done"
    /\ Len(requests) + 1 < MaxOperations
    /\ pc' = "idle"
    /\ requests' = Append(requests, [session |-> 1, nth |-> Len(requests) + 1,
                                     query |-> query])
    /\ UNCHANGED << mb_param, sv_param, t_id, mb_mapping, c2s, s2c, op, query,
                    response, ret, data_dest, seen, peer, rcv, configured >>

NextSession ==
    \/ \E a \in Addrs : read_holding_registers(a, 1, UINT16)
    \/ \E st \in {0, 1} : force_single_coil(0, st)
    \/ \E u \in {1, 2} : modbus_set_slave(u)
    \/ \E b \in {0, 1} : modbus_set_debug(b)
    \/ \E e \in {FLUSH_OR_CONNECT_ON_ERROR, NOP_ON_ERROR, "other"} :
          modbus_set_error_handling(e)
    \/ SlaveManage
    \/ \E j \in Junk : ReceiveReply(j)
    \/ NextOperation

SpecSession == InitSession /\ [][NextSession]_vars

\* C35: every reply that a client operation accepts as success was sent by
\* the slave in answer to that same request: after an operation ended in
\* SELECT_TIMEOUT, its reply arriving late is not taken for the answer to
\* the next request of the session. (For a read of holding registers, whose
\* values no operation of the session changes, the accepted frame is the
\* slave's response to the query of this operation.)
C35_ReplyAnswersItsRequest ==
    ( /\ Awaited
      /\ op.name = "read_holding_registers"
      /\ ret > 0 )
    => response = HonestReply(query)

\* C36: client operations leave the session configuration unchanged: after
\* any operation (force_single_coil included) the debug flag, the unit id,
\* the error-handling policy and the transport kind are those last set by
\* the constructor or by modbus_set_slave, modbus_set_debug and
\* modbus_set_error_handling, and the policy is one of the two policies.
C36_ConfigurationKept ==
    pc = "done" =>
        /\ mb_param.debug = configured.debug
        /\ mb_param.slave = configured.slave
        /\ mb_param.error_handling = configured.error_handling
        /\ mb_param.type_com = configured.type_com
        /\ mb_param.error_handling \in {FLUSH_OR_CONNECT_ON_ERROR, NOP_ON_ERROR}

----------------------------------------------------------------------------
(* The slave with a map of more than 127 holding registers (the sizes are
   the caller's choice in modbus_mapping_new) and a master reading up to 128
   registers in one query *)

InitBigMap ==
    /\ \E t \in {RTU, TCP} :
          /\ mb_param = [type_com |-> t, slave |-> 1, debug |-> 0, fd |-> 0,
                         error_handling |-> FLUSH_OR_CONNECT_ON_ERROR]
          /\ sv_param = [type_com |-> t, slave |-> 1, debug |-> 0, fd |-> 0,
                         error_handling |-> FLUSH_OR_CONNECT_ON_ERROR]
    /\ t_id = 0
    /\ mb_mapping = [tab_coil_status |-> << 1, 0, 1 >>,
                     tab_input_status |-> << 0, 1, 1 >>,
                     tab_holding_registers |-> [k \in 1..(128 + MaxAddr) |-> 256 + k],
                     tab_input_registers |-> << 43981, 1, 2 >>]
    /\ c2s = << >>
    /\ s2c = << >>
    /\ pc = "idle"
    /\ op = NoOp
    /\ query = << >>
    /\ response = << >>
    /\ ret = 0
    /\ data_dest = << >>
    /\ seen = << >>
    /\ peer = "none"
    /\ requests = << >>
    /\ rcv = NoRcv
    /\ configured = mb_param

NextBigMap ==
    \/ \E f \in {FC_READ_COIL_STATUS, FC_READ_INPUT_STATUS,
                  FC_READ_HOLDING_REGISTERS, FC_READ_INPUT_REGISTERS},
          a \in Addrs, n \in (1..MaxQty) \cup {127, 128} :
          MasterQuery(1, f, a, n, "b", TRUE)
    \/ SlaveManage

SpecBigMap == InitBigMap /\ [][NextBigMap]_vars

\* C37: for every read query the server accepts (address + quantity within
\* the map, whatever the sizes of the map and the 16-bit quantity), the byte
\* count field of the response equals the number of data bytes that follow
\* it, and the response put on the wire is no longer than the maximal ADU
\* (256 RTU, 260 TCP).
C37_ReadByteCountAndLength ==
    ( /\ SrvHandled /\ SrvForMe(query)
      /\ SrvFunction(query) \in {1, 2, 3, 4}
      /\ ~SrvOutOfRange(query, mb_mapping) )
    => LET h == TAB_HEADER_LENGTH(sv_param.type_com)
       IN  /\ Len(s2c) > h + 1
           /\ At(s2c, h + 1)
                 = Len(s2c) - (h + 2) - TAB_CHECKSUM_LENGTH(sv_param.type_com)
           /\ Len(s2c) <= (IF sv_param.type_com = RTU THEN 256 ELSE 260)

----------------------------------------------------------------------------
(* Claim about the destination array of read_input_registers *)

\* the 16-bit elements of the caller's array that the uint32_t cells written
\* by read_registers cover: two per cell, whatever the byte order
ElementsWritten == 2 * Len(data_dest)

\* the 16-bit element i (from 0) of the caller's array after the call, where
\* the low half of a uint32_t cell comes first in memory (little-endian)
Element16(i) ==
    IF (i % 2) = 0 THEN StoredCell(i \div 2).lo ELSE StoredCell(i \div 2).hi

\* C38: read_input_registers (addr, nb, data_dest), data_dest being an array
\* of nb 16-bit elements, writes exactly the elements data_dest[0 .. nb-1],
\* element i holding the i-th register of the reply, and nothing beyond the
\* nb-th 16-bit element.
C38_InputRegistersFillNbElements ==
    ( /\ FullValidReply
      /\ op.name = "read_input_registers"
      /\ RespFn = ReqFn
      /\ op.nb \in 1..MAX_REGISTERS
      /\ ret = op.nb )
    => /\ ElementsWritten = op.nb
       /\ \A i \in 0..(op.nb - 1) :
             Element16(i) = At(response, TAB_HEADER_LENGTH(mb_param.type_com)
                                          + 2 + 2 * i) * 256
                            + At(response, TAB_HEADER_LENGTH(mb_param.type_com)
                                           + 3 + 2 * i)

====
